---- MODULE Spec2Model ----
(***************************************************************************)
(* Site Selection IQ: the idempotency claim store, the create-run handler  *)
(* and the scoring pipeline with its retry wrapper, as a state machine.    *)
(*                                                                         *)
(* The durable store is PostgreSQL.  Every repository call is one          *)
(* autocommit statement; a call made with a cancelled context, or while    *)
(* the store is unreachable, returns an error and changes nothing.         *)
(***************************************************************************)
EXTENDS Integers, Sequences, FiniteSets, TLC

(***************************************************************************)
(* Bounds of the model.                                                    *)
(***************************************************************************)
NReq == 2          \* concurrent HandleCreateRun requests
MaxRetries == 1    \* Pipeline.maxRetries ranges over 0..MaxRetries
MaxRecords == 2    \* site records of one upload

Reqs == 1..NReq
Tenants == {"tA", "tB"}
Keys == {"", "k1"}                 \* "" is the absent Idempotency-Key
UploadLookups == {"err", "absent", "invalid", "valid"}

NullInt == -1                      \* SQL NULL / Go nil in an integer column
NullStr == "NULL"                  \* SQL NULL / Go nil in a text column
NoRun == 0                         \* no run id
NoUpload == 0                      \* no upload found (nil)
NotChecked == -1                   \* GetByContentHash not called yet

(***************************************************************************)
(* State.                                                                  *)
(***************************************************************************)
VARIABLES
    idem,        \* idempotency_keys: committed rows [tenant, key, rtype, rid]
    runs,        \* scoring_runs: run id -> persisted record
    launched,    \* run ids handed to `go ExecuteWithRetry`
    req,         \* per request: tenant, idempotency key
    hpc,         \* per request: position in HandleCreateRun
    hsnap,       \* per request: the statement snapshot of idempotency_keys
    hclaim,      \* per request: what Claim returned
    hresp,       \* per request: HTTP status sent (0: none yet)
    hexisting,   \* per request: run id in the 409 body (NoRun: null)
    snapshots,   \* schema_config_snapshots: rows [id, runId]
    stored,      \* recommendations: the persisted rows, in insertion order
    siteRecords, \* site_records of the run's upload, ORDER BY created_at
    fetched,     \* GetByUpload has returned siteRecords before
    schemaCfg,   \* what the active schema_configs rows resolve to
    maxRetries,  \* Pipeline.maxRetries
    retryBaseWait, \* Pipeline.retryBaseWait, in ms
    pc,          \* the pipeline goroutine's position
    prun,        \* run.ID of the run the pipeline was handed
    attempt,     \* the loop variable of ExecuteWithRetry
    perr,        \* err: the failure the current attempt is returning
    lastErr,     \* lastErr of ExecuteWithRetry
    ret,         \* what ExecuteWithRetry returned
    cancelled,   \* ctx.Done() is closed
    memSnapshotID, \* run.SchemaConfigSnapshotID of the in-memory run
    markedRunning, \* this attempt's update to "running" was applied
    started,     \* attempts started so far
    lastWrite,   \* the last UpdateStatus call issued and whether it was applied
    uploads,     \* uploads: the stored rows [id, tenant, hash, key]
    ufound,      \* per request: what GetByContentHash found (NotChecked before)
    callArgs,    \* the arguments of a pure function being called
    callResult   \* what that call returned

hvars == <<idem, runs, launched, req, hpc, hsnap, hclaim, hresp, hexisting>>
hvars_rest == <<idem, launched, req, hpc, hsnap, hclaim, hresp, hexisting>>
pvars == <<snapshots, stored, siteRecords, fetched, schemaCfg, maxRetries, retryBaseWait,
           pc, prun, attempt, perr, lastErr, ret, cancelled, memSnapshotID,
           markedRunning, started, lastWrite>>

uvars == <<uploads, ufound>>

fvars == <<callArgs, callResult>>

vars == <<hvars, pvars, uvars, fvars>>

(***************************************************************************)
(* IdempotencyRepository.Claim.                                            *)
(*                                                                         *)
(* The statement is                                                        *)
(*   WITH inserted AS (INSERT ... ON CONFLICT DO NOTHING RETURNING ...)    *)
(*   SELECT ... FROM inserted                                              *)
(*   UNION ALL SELECT ... FROM idempotency_keys WHERE <key>                *)
(*             AND NOT EXISTS (SELECT 1 FROM inserted)                     *)
(* run at READ COMMITTED.  Its SELECT reads the snapshot taken when the    *)
(* statement starts; the INSERT's conflict check is made against the       *)
(* unique index, which sees every row committed (or waits for a row in     *)
(* flight) whether or not the snapshot shows it.  The model keeps the two  *)
(* points in time apart: ClaimBegin takes the snapshot, ClaimExec runs the *)
(* insert, the select and the commit.                                      *)
(***************************************************************************)
NoClaim == [kind |-> "none", AlreadyExists |-> FALSE, ResourceID |-> NoRun]

Row(t, k, ty, rid) == [tenant |-> t, key |-> k, rtype |-> ty, rid |-> rid]

\* The key lookup without the resource_type column.
KeyRows_IgnoresType(table, t, k, ty) ==
    {row \in table : row.tenant = t /\ row.key = k}

KeyRows(table, t, k, ty) ==
    {row \in table : row.tenant = t /\ row.key = k /\ row.rtype = ty}

\* INSERT ... ON CONFLICT (tenant_id, key, resource_type) DO NOTHING
ClaimInsert(table, t, k, ty, rid) ==
    IF KeyRows(table, t, k, ty) = {} THEN table \cup {Row(t, k, ty, rid)}
    ELSE table

\* The row QueryRow scans, or the error Claim returns.
ClaimResult(table, snap, t, k, ty, rid) ==
    IF KeyRows(table, t, k, ty) = {}
    THEN [kind |-> "ok", AlreadyExists |-> FALSE, ResourceID |-> rid]
    ELSE IF KeyRows(snap, t, k, ty) # {}
         THEN [kind |-> "ok", AlreadyExists |-> TRUE,
               ResourceID |-> (CHOOSE row \in KeyRows(snap, t, k, ty) : TRUE).rid]
         ELSE [kind |-> "empty", AlreadyExists |-> FALSE, ResourceID |-> NoRun]

ClaimInvalid == [kind |-> "invalid", AlreadyExists |-> FALSE, ResourceID |-> NoRun]
ClaimStoreErr == [kind |-> "storeErr", AlreadyExists |-> FALSE, ResourceID |-> NoRun]

(***************************************************************************)
(* scoring_runs rows and RunRepository.                                    *)
(***************************************************************************)
NoError == [kind |-> "null", attempts |-> 0, step |-> ""]
NoSnapshot == 0

\* The ScoringRun HandleCreateRun builds (run.go 131-145).
NewRun(id, t, k) ==
    [id |-> id, tenant |-> t, status |-> "queued", scoredCount |-> NullInt,
     attempt |-> 0, lastError |-> NoError, durationMs |-> NullInt,
     schemaConfigSnapshotId |-> NoSnapshot,
     idempotencyKey |-> IF k = "" THEN NullStr ELSE k]

\* RunRepository.Create fails on the primary key and on
\* idx_scoring_runs_idempotency (tenant_id, idempotency_key).
CreateConflict(table, run) ==
    \/ run.id \in DOMAIN table
    \/ /\ run.idempotencyKey # NullStr
       /\ \E id \in DOMAIN table :
             /\ table[id].tenant = run.tenant
             /\ table[id].idempotencyKey = run.idempotencyKey

\* RunRepository.GetByID, scoped to the tenant: the run id, or NoRun for nil.
GetByID(table, t, id) ==
    IF id \in DOMAIN table /\ table[id].tenant = t THEN id ELSE NoRun

(***************************************************************************)
(* RunHandler.HandleCreateRun, one request r.  The candidate run id is     *)
(* uuid.New(): distinct per request, modelled as r.                        *)
(***************************************************************************)
NoReq == [tenant |-> "", key |-> "", upload |-> "", rtype |-> "", hash |-> ""]

Finish(r, code) ==
    /\ hresp' = [hresp EXCEPT ![r] = code]
    /\ hpc' = [hpc EXCEPT ![r] = "done"]

\* run.go 53-89: read the key, look the upload up, check it is valid.
HandleCreateRun(r) ==
    /\ hpc[r] = "idle"
    /\ \E t \in Tenants, k \in Keys, up \in UploadLookups :
          /\ req' = [req EXCEPT ![r] = [tenant |-> t, key |-> k, upload |-> up,
                                           rtype |-> "scoring_run", hash |-> ""]]
          /\ CASE up = "err" -> Finish(r, 500)
               [] up = "absent" -> Finish(r, 404)
               [] up = "invalid" -> Finish(r, 422)
               [] OTHER ->
                    /\ hpc' = [hpc EXCEPT ![r] = IF k # "" THEN "claim" ELSE "create"]
                    /\ hresp' = hresp
    /\ UNCHANGED <<fvars, pvars, uvars, idem, runs, launched, hsnap, hclaim, hexisting>>

\* ClaimBegin without the empty-key check of idempotency_repo.go 42-44.
ClaimBegin_NoKeyCheck(r) ==
    /\ hpc[r] = "claim"
    /\ hsnap' = [hsnap EXCEPT ![r] = idem]
    /\ hpc' = [hpc EXCEPT ![r] = "claim_exec"]
    /\ UNCHANGED <<fvars, pvars, uvars, idem, runs, launched, req, hclaim, hresp, hexisting>>

\* The Claim statement starts: its snapshot is taken (or the store call fails).
ClaimBegin(r) ==
    /\ hpc[r] = "claim"
    /\ \E ok \in BOOLEAN :
          IF req[r].key = ""
          THEN /\ hclaim' = [hclaim EXCEPT ![r] = ClaimInvalid]
               /\ hpc' = [hpc EXCEPT ![r] = "claim_ret"]
               /\ hsnap' = hsnap
          ELSE IF ok
          THEN /\ hsnap' = [hsnap EXCEPT ![r] = idem]
               /\ hpc' = [hpc EXCEPT ![r] = "claim_exec"]
               /\ hclaim' = hclaim
          ELSE /\ hclaim' = [hclaim EXCEPT ![r] = ClaimStoreErr]
               /\ hpc' = [hpc EXCEPT ![r] = "claim_ret"]
               /\ hsnap' = hsnap
    /\ UNCHANGED <<fvars, pvars, uvars, idem, runs, launched, req, hresp, hexisting>>

\* The Claim statement runs to its commit and QueryRow scans its row.
ClaimExec(r) ==
    /\ hpc[r] = "claim_exec"
    /\ idem' = ClaimInsert(idem, req[r].tenant, req[r].key, req[r].rtype, r)
    /\ hclaim' = [hclaim EXCEPT ![r] =
          ClaimResult(idem, hsnap[r], req[r].tenant, req[r].key, req[r].rtype, r)]
    /\ hpc' = [hpc EXCEPT ![r] = "claim_ret"]
    /\ UNCHANGED <<fvars, pvars, uvars, runs, launched, req, hsnap, hresp, hexisting>>

\* run.go 95-103: 500 on an error; 409 with the existing run on a duplicate.
ClaimReturn(r) ==
    /\ hpc[r] = "claim_ret"
    /\ IF hclaim[r].kind # "ok"
       THEN Finish(r, 500) /\ hexisting' = hexisting
       ELSE IF hclaim[r].AlreadyExists
       THEN /\ \E ok \in BOOLEAN :
                 hexisting' = [hexisting EXCEPT ![r] =
                     IF ok THEN GetByID(runs, req[r].tenant, hclaim[r].ResourceID)
                     ELSE NoRun]
            /\ Finish(r, 409)
       ELSE /\ hpc' = [hpc EXCEPT ![r] = "create"]
            /\ UNCHANGED <<fvars, pvars, uvars, hresp, hexisting>>
    /\ UNCHANGED <<fvars, pvars, uvars, idem, runs, launched, req, hsnap, hclaim>>

\* CreateRun going on to the launch when runRepo.Create failed.
CreateRun_LaunchesOnFailure(r) ==
    /\ hpc[r] = "create"
    /\ \E ok \in BOOLEAN :
          LET run == NewRun(r, req[r].tenant, req[r].key) IN
          /\ runs' = IF ok /\ ~CreateConflict(runs, run)
                     THEN [id \in DOMAIN runs \cup {r} |->
                              IF id = r THEN run ELSE runs[id]]
                     ELSE runs
          /\ hpc' = [hpc EXCEPT ![r] = "launch"]
    /\ UNCHANGED <<fvars, pvars, uvars, idem, launched, req, hsnap, hclaim, hresp, hexisting>>

\* run.go 147-150: runRepo.Create; 500 when it fails.
CreateRun(r) ==
    /\ hpc[r] = "create"
    /\ \E ok \in BOOLEAN :
          LET run == NewRun(r, req[r].tenant, req[r].key) IN
          IF ok /\ ~CreateConflict(runs, run)
          THEN /\ runs' = [id \in DOMAIN runs \cup {r} |->
                              IF id = r THEN run ELSE runs[id]]
               /\ hpc' = [hpc EXCEPT ![r] = "launch"]
               /\ hresp' = hresp
          ELSE /\ Finish(r, 500)
               /\ runs' = runs
    /\ UNCHANGED <<fvars, pvars, uvars, idem, launched, req, hsnap, hclaim, hexisting>>

\* run.go 153-156: go ExecuteWithRetry(context.Background(), run)
LaunchPipeline(r) ==
    /\ hpc[r] = "launch"
    /\ launched' = launched \cup {r}
    /\ hpc' = [hpc EXCEPT ![r] = "respond"]
    /\ UNCHANGED <<fvars, pvars, uvars, idem, runs, req, hsnap, hclaim, hresp, hexisting>>

\* run.go 158: 202 Accepted
Respond(r) ==
    /\ hpc[r] = "respond"
    /\ Finish(r, 202)
    /\ UNCHANGED <<fvars, pvars, uvars, idem, runs, launched, req, hsnap, hclaim, hexisting>>

(***************************************************************************)
(* IdempotencyRepository.Claim called directly, with any tenant, key and   *)
(* resource type ("scoring_run" by HandleCreateRun, "upload" by            *)
(* HandleUpload); the candidate resource id of caller r is r.              *)
(***************************************************************************)
ResourceTypes == {"scoring_run", "upload"}

\* A caller enters Claim(ctx, tenantID, key, resourceType, resourceID).
CallClaim(r) ==
    /\ hpc[r] = "idle"
    /\ \E t \in Tenants, k \in Keys, ty \in ResourceTypes :
          req' = [req EXCEPT ![r] = [tenant |-> t, key |-> k, upload |-> "",
                                     rtype |-> ty, hash |-> ""]]
    /\ hpc' = [hpc EXCEPT ![r] = "claim"]
    /\ UNCHANGED <<fvars, pvars, uvars, idem, runs, launched, hsnap, hclaim, hresp, hexisting>>

\* Claim returns its result or its error to the caller.
ClaimDone(r) ==
    /\ hpc[r] = "claim_ret"
    /\ hpc' = [hpc EXCEPT ![r] = "done"]
    /\ UNCHANGED <<fvars, pvars, uvars, idem, runs, launched, req, hsnap, hclaim, hresp, hexisting>>

KeysNext ==
    \E r \in Reqs :
        \/ CallClaim(r)
        \/ ClaimBegin(r)
        \/ ClaimExec(r)
        \/ ClaimDone(r)

HandlerNext ==
    \E r \in Reqs :
        \/ HandleCreateRun(r)
        \/ ClaimBegin(r)
        \/ ClaimExec(r)
        \/ ClaimReturn(r)
        \/ CreateRun(r)
        \/ LaunchPipeline(r)
        \/ Respond(r)


(***************************************************************************)
(* RunRepository.UpdateStatus and IncrementAttempt (one UPDATE each).      *)
(***************************************************************************)
\* UpdateStatus assigning its arguments as they are, NULL included.
UpdateStatus_PlainSet(table, id, status, scoredCount, lastError, durationMs) ==
    IF id \notin DOMAIN table THEN table
    ELSE [table EXCEPT ![id] =
            [@ EXCEPT !.status = status,
                      !.scoredCount = scoredCount,
                      !.lastError = lastError,
                      !.durationMs = durationMs]]

\* SET status = $1, scored_count = COALESCE($2, scored_count),
\*     last_error = COALESCE($3, last_error), duration_ms = COALESCE($4, ..)
UpdateStatus(table, id, status, scoredCount, lastError, durationMs) ==
    IF id \notin DOMAIN table THEN table
    ELSE [table EXCEPT ![id] =
            [@ EXCEPT !.status = status,
                      !.scoredCount = IF scoredCount = NullInt THEN @ ELSE scoredCount,
                      !.lastError = IF lastError = NoError THEN @ ELSE lastError,
                      !.durationMs = IF durationMs = NullInt THEN @ ELSE durationMs]]

\* The increment counting two for one attempt.
IncrementAttempt_Twice(table, id) ==
    IF id \notin DOMAIN table THEN table
    ELSE [table EXCEPT ![id].attempt = @ + 2]

\* SET attempt = attempt + 1
IncrementAttempt(table, id) ==
    IF id \notin DOMAIN table THEN table
    ELSE [table EXCEPT ![id].attempt = @ + 1]

(***************************************************************************)
(* The inputs of one run.                                                  *)
(***************************************************************************)
BadJSON == -2          \* a site record whose data json.Unmarshal rejects
Unscorable == -1       \* a site record on which scoreFunc returns an error
Scores == {40, 70}     \* finalScore of a record that scores
RecordData == {BadJSON, Unscorable} \cup Scores
Durations == {7}       \* time.Since(startTime).Milliseconds()
SchemaCfgs == {"ok", "no_global", "unresolvable"}
BaseWaits == {0, 1000}

SiteRecordSets ==
    UNION {[1..n -> RecordData] : n \in 0..MaxRecords}

(***************************************************************************)
(* Scoring and ranking (pipeline.go 184-249).                              *)
(***************************************************************************)
\* The scoring loop with a record failure ending the loop without results.
ScoreSites_AbortsOnBadRecord(records, idx) ==
    IF \E i \in idx..Len(records) : records[i] \in {BadJSON, Unscorable}
    THEN <<>>
    ELSE [i \in 1..(Len(records) - idx + 1) |->
            [SiteID |-> i + idx - 1, FinalScore |-> records[i + idx - 1], Ranking |-> 0]]

\* The loop over siteRecords: a record that fails to parse or to score is
\* skipped; the others become recommendations with Ranking 0.
RECURSIVE ScoreSites(_, _)
ScoreSites(records, idx) ==
    IF idx > Len(records) THEN <<>>
    ELSE IF records[idx] = BadJSON \/ records[idx] = Unscorable
         THEN ScoreSites(records, idx + 1)
         ELSE <<[SiteID |-> idx, FinalScore |-> records[idx], Ranking |-> 0]>>
              \o ScoreSites(records, idx + 1)

Swap(s, i, j) == [s EXCEPT ![i] = s[j], ![j] = s[i]]

\* sortRecommendationsByScore: for i, for j > i, swap when s[j] > s[i].
RECURSIVE SortFrom(_, _, _)
SortFrom(s, i, j) ==
    IF i > Len(s) THEN s
    ELSE IF j > Len(s) THEN SortFrom(s, i + 1, i + 2)
    ELSE IF s[j].FinalScore > s[i].FinalScore
         THEN SortFrom(Swap(s, i, j), i, j + 1)
         ELSE SortFrom(s, i, j + 1)

sortRecommendationsByScore(s) == SortFrom(s, 1, 2)

\* recommendations[i].Ranking = i + 1
AssignRankings(s) == [i \in 1..Len(s) |-> [s[i] EXCEPT !.Ranking = i]]

Recommendations(records) ==
    AssignRankings(sortRecommendationsByScore(ScoreSites(records, 1)))

(***************************************************************************)
(* Pipeline.Execute and Pipeline.ExecuteWithRetry, for the run prun.       *)
(***************************************************************************)

\* A store call made with a cancelled context fails.
StoreOutcomes == IF cancelled THEN {FALSE} ELSE BOOLEAN

\* err.Error() of the failure of one step.
StepError(step) == [kind |-> "step", attempts |-> 0, step |-> step]

\* "scoring pipeline failed after %d attempts: %v"
CompositeError(n, step) == [kind |-> "exhausted", attempts |-> n, step |-> step]

NoWrite == [status |-> "", lastError |-> NoError, applied |-> FALSE]

\* The status update of a step: applied or not, and recorded as issued.
WriteStatus(ok, status, scoredCount, lastError, durationMs) ==
    /\ runs' = IF ok
               THEN UpdateStatus(runs, prun, status, scoredCount, lastError, durationMs)
               ELSE runs
    /\ lastWrite' = [status |-> status, lastError |-> lastError, applied |-> ok]

\* AfterFailure with the retry disabled: one attempt, whatever maxRetries is.
AfterFailure_NoRetry(a, max) == "exhausted"

\* pipeline.go 310-318: after a failed attempt, stop or back off.
AfterFailure(a, max) == IF a >= max THEN "exhausted" ELSE "backoff"

\* The wrapper giving up at once on a schema-resolution error.
AttemptFailed_PermanentStops(step) ==
    /\ lastErr' = step
    /\ pc' = IF step = "resolve" THEN "exhausted" ELSE AfterFailure(attempt, maxRetries)

\* Execute returned err to ExecuteWithRetry.
AttemptFailed(step) ==
    /\ lastErr' = step
    /\ pc' = AfterFailure(attempt, maxRetries)

\* A step of Execute failed: Execute calls handleExecutionError next.
Fail(step) ==
    /\ perr' = step
    /\ pc' = "handle_error"

\* pipeline.go 293-301: the loop head and IncrementAttempt (its error is logged).
StartAttempt ==
    /\ pc = "loop"
    /\ IF attempt <= maxRetries
       THEN /\ \E ok \in StoreOutcomes :
                 runs' = IF ok THEN IncrementAttempt(runs, prun) ELSE runs
            /\ started' = started + 1
            /\ markedRunning' = FALSE
            /\ pc' = "update_status_running"
       ELSE /\ pc' = "exhausted"
            /\ UNCHANGED <<runs, started, markedRunning>>
    /\ UNCHANGED <<fvars, uvars, hvars_rest, snapshots, stored, siteRecords, fetched, schemaCfg, maxRetries,
                   retryBaseWait, prun, attempt, perr, lastErr, ret, cancelled,
                   memSnapshotID, lastWrite>>

\* MarkRunning without its UpdateStatus call: Execute goes on to step b.
MarkRunning_Skipped ==
    /\ pc = "update_status_running"
    /\ markedRunning' = FALSE
    /\ pc' = "resolve_schema_config"
    /\ UNCHANGED <<fvars, uvars, hvars, snapshots, stored, siteRecords, fetched, schemaCfg, maxRetries,
                   retryBaseWait, prun, attempt, perr, lastErr, ret, cancelled,
                   memSnapshotID, started, lastWrite>>

\* Step a (pipeline.go 82-85).
MarkRunning ==
    /\ pc = "update_status_running"
    /\ \E ok \in StoreOutcomes :
          /\ WriteStatus(ok, "running", NullInt, NoError, NullInt)
          /\ markedRunning' = ok
          /\ IF ok THEN pc' = "resolve_schema_config" /\ perr' = perr
                   ELSE Fail("update_status_running")
    /\ UNCHANGED <<fvars, uvars, hvars_rest, snapshots, stored, siteRecords, fetched, schemaCfg, maxRetries,
                   retryBaseWait, prun, attempt, lastErr, ret, cancelled,
                   memSnapshotID, started>>

\* Step b (pipeline.go 91-119): GetGlobalActive, GetTenantActive, Resolve.
ResolveSchema ==
    /\ pc = "resolve_schema_config"
    /\ \E okGlobal \in StoreOutcomes, okTenant \in StoreOutcomes :
          IF ~okGlobal THEN Fail("get_global_active")
          ELSE IF schemaCfg = "no_global" THEN Fail("no_active_global")
          ELSE IF ~okTenant THEN Fail("get_tenant_active")
          ELSE IF schemaCfg = "unresolvable" THEN Fail("resolve")
          ELSE pc' = "create_snapshot" /\ perr' = perr
    /\ UNCHANGED <<fvars, uvars, hvars, snapshots, stored, siteRecords, fetched, schemaCfg, maxRetries,
                   retryBaseWait, prun, attempt, lastErr, ret, cancelled,
                   memSnapshotID, markedRunning, started, lastWrite>>

\* uuid.New(): an id no snapshot has.
NewSnapshotID == Cardinality(snapshots) + 1

\* Step c with the snapshot left unwritten: Execute goes on to step d.
CreateSnapshot_NotPersisted ==
    /\ pc = "create_snapshot"
    /\ pc' = "fetch_site_records"
    /\ UNCHANGED <<fvars, uvars, hvars, snapshots, stored, siteRecords, fetched, schemaCfg,
                   maxRetries, retryBaseWait, prun, attempt, perr, lastErr, ret, cancelled,
                   memSnapshotID, markedRunning, started, lastWrite>>

\* Step c (pipeline.go 128-153): CreateSnapshot, then the in-memory
\* run.SchemaConfigSnapshotID = &snapshotID.
CreateSnapshot ==
    /\ pc = "create_snapshot"
    /\ \E ok \in StoreOutcomes :
          IF ok
          THEN /\ snapshots' = snapshots \cup {[id |-> NewSnapshotID, runId |-> prun]}
               /\ memSnapshotID' = NewSnapshotID
               /\ pc' = "fetch_site_records"
               /\ perr' = perr
          ELSE /\ Fail("create_snapshot")
               /\ UNCHANGED <<snapshots, memSnapshotID>>
    /\ UNCHANGED <<fvars, uvars, hvars, stored, siteRecords, fetched, schemaCfg, maxRetries,
                   retryBaseWait, prun, attempt, lastErr, ret, cancelled,
                   markedRunning, started, lastWrite>>

\* Step d (pipeline.go 161-169): GetByUpload and the test for an empty set.
\* The upload's site records were written before the run was created and do
\* not change: the first read fixes them, every later read returns the same.
FetchSiteRecords ==
    /\ pc = "fetch_site_records"
    /\ \E ok \in StoreOutcomes :
          IF ok
          THEN /\ siteRecords' \in IF fetched THEN {siteRecords} ELSE SiteRecordSets
               /\ fetched' = TRUE
               /\ pc' = IF Len(siteRecords') = 0 THEN "succeeded_empty"
                        ELSE "bulk_insert_recommendations"
               /\ perr' = perr
          ELSE /\ Fail("fetch_site_records")
               /\ UNCHANGED <<siteRecords, fetched>>
    /\ UNCHANGED <<fvars, uvars, hvars, snapshots, stored, schemaCfg, maxRetries,
                   retryBaseWait, prun, attempt, lastErr, ret, cancelled,
                   memSnapshotID, markedRunning, started, lastWrite>>

\* pipeline.go 169-176: no site records; the update's error is logged and
\* Execute returns nil, so ExecuteWithRetry returns nil.
SucceedEmpty ==
    /\ pc = "succeeded_empty"
    /\ \E ok \in StoreOutcomes, d \in Durations :
          WriteStatus(ok, "succeeded", 0, NoError, d)
    /\ pc' = "done"
    /\ ret' = "nil"
    /\ UNCHANGED <<fvars, uvars, hvars_rest, snapshots, stored, siteRecords, fetched, schemaCfg, maxRetries,
                   retryBaseWait, prun, attempt, perr, lastErr, cancelled,
                   memSnapshotID, markedRunning, started>>

\* RecommendationRepository.BulkInsert: nothing to do for an empty list;
\* otherwise one batch in one implicit transaction, all rows or none.
BulkInsert(table, recs) == table \o recs

\* Steps e, f, g (pipeline.go 182-258): score, rank, BulkInsert.
InsertRecommendations ==
    /\ pc = "bulk_insert_recommendations"
    /\ LET recs == Recommendations(siteRecords) IN
       \E ok \in IF Len(recs) = 0 THEN {TRUE} ELSE StoreOutcomes :
          IF ok
          THEN /\ stored' = BulkInsert(stored, recs)
               /\ pc' = "update_status_succeeded"
               /\ perr' = perr
          ELSE /\ Fail("bulk_insert_recommendations")
               /\ stored' = stored
    /\ UNCHANGED <<fvars, uvars, hvars, snapshots, siteRecords, fetched, schemaCfg, maxRetries,
                   retryBaseWait, prun, attempt, lastErr, ret, cancelled,
                   memSnapshotID, markedRunning, started, lastWrite>>

\* MarkSucceeded whose success does not end the retry loop.
MarkSucceeded_RetriesAnyway ==
    /\ pc = "update_status_succeeded"
    /\ \E ok \in StoreOutcomes, d \in Durations :
          WriteStatus(ok, "succeeded", Len(Recommendations(siteRecords)), NoError, d)
    /\ AttemptFailed("update_status_succeeded")
    /\ UNCHANGED <<fvars, uvars, hvars_rest, snapshots, stored, siteRecords, fetched, schemaCfg, maxRetries,
                   retryBaseWait, prun, attempt, perr, ret, cancelled,
                   memSnapshotID, markedRunning, started>>

\* Step h (pipeline.go 266-278): on an error Execute returns it without
\* calling handleExecutionError.
MarkSucceeded ==
    /\ pc = "update_status_succeeded"
    /\ \E ok \in StoreOutcomes, d \in Durations :
          /\ WriteStatus(ok, "succeeded", Len(Recommendations(siteRecords)), NoError, d)
          /\ IF ok THEN pc' = "done" /\ ret' = "nil" /\ lastErr' = lastErr
                   ELSE AttemptFailed("update_status_succeeded") /\ ret' = ret
    /\ UNCHANGED <<fvars, uvars, hvars_rest, snapshots, stored, siteRecords, fetched, schemaCfg, maxRetries,
                   retryBaseWait, prun, attempt, perr, cancelled,
                   memSnapshotID, markedRunning, started>>

\* handleExecutionError without its UpdateStatus call.
handleExecutionError_NoUpdate ==
    /\ pc = "handle_error"
    /\ AttemptFailed(perr)
    /\ UNCHANGED <<fvars, uvars, hvars, snapshots, stored, siteRecords, fetched, schemaCfg, maxRetries,
                   retryBaseWait, prun, attempt, perr, ret, cancelled,
                   memSnapshotID, markedRunning, started, lastWrite>>

\* handleExecutionError (pipeline.go 369-384): the update's error is logged.
handleExecutionError ==
    /\ pc = "handle_error"
    /\ \E ok \in StoreOutcomes :
          WriteStatus(ok, "failed", NullInt, StepError(perr), NullInt)
    /\ AttemptFailed(perr)
    /\ UNCHANGED <<fvars, uvars, hvars_rest, snapshots, stored, siteRecords, fetched, schemaCfg, maxRetries,
                   retryBaseWait, prun, attempt, perr, ret, cancelled,
                   memSnapshotID, markedRunning, started>>

\* The loop without its attempt++: the same attempt index again.
BackoffElapsed_SameAttempt ==
    /\ pc = "backoff"
    /\ ~cancelled \/ retryBaseWait = 0
    /\ pc' = "loop"
    /\ UNCHANGED <<fvars, uvars, hvars, snapshots, stored, siteRecords, fetched, schemaCfg,
                   maxRetries, retryBaseWait, prun, attempt, perr, lastErr, ret, cancelled,
                   memSnapshotID, markedRunning, started, lastWrite>>

\* BackoffElapsed with no ctx.Done() case in the select.
BackoffElapsed_IgnoresCancel ==
    /\ pc = "backoff"
    /\ attempt' = attempt + 1
    /\ pc' = "loop"
    /\ UNCHANGED <<fvars, uvars, hvars, snapshots, stored, siteRecords, fetched, schemaCfg, maxRetries,
                   retryBaseWait, prun, perr, lastErr, ret, cancelled,
                   memSnapshotID, markedRunning, started, lastWrite>>

\* pipeline.go 328-330: time.After(backoff) fires.  A sleep of 0 ms is over
\* as it begins; a longer one is cut short by a cancellation.
BackoffElapsed ==
    /\ pc = "backoff"
    /\ ~cancelled \/ retryBaseWait = 0
    /\ attempt' = attempt + 1
    /\ pc' = "loop"
    /\ UNCHANGED <<fvars, uvars, hvars, snapshots, stored, siteRecords, fetched, schemaCfg, maxRetries,
                   retryBaseWait, prun, perr, lastErr, ret, cancelled,
                   memSnapshotID, markedRunning, started, lastWrite>>

\* pipeline.go 331-333: ctx.Done() during the backoff; return ctx.Err().
BackoffCancelled ==
    /\ pc = "backoff"
    /\ cancelled
    /\ pc' = "done"
    /\ ret' = "ctx"
    /\ UNCHANGED <<fvars, uvars, hvars, snapshots, stored, siteRecords, fetched, schemaCfg, maxRetries,
                   retryBaseWait, prun, attempt, perr, lastErr, cancelled,
                   memSnapshotID, markedRunning, started, lastWrite>>

\* pipeline.go 337-345: all retries exhausted.
Exhausted ==
    /\ pc = "exhausted"
    /\ \E ok \in StoreOutcomes :
          WriteStatus(ok, "failed", NullInt,
                      CompositeError(maxRetries + 1, lastErr), NullInt)
    /\ pc' = "done"
    /\ ret' = "err"
    /\ UNCHANGED <<fvars, uvars, hvars_rest, snapshots, stored, siteRecords, fetched, schemaCfg, maxRetries,
                   retryBaseWait, prun, attempt, perr, lastErr, cancelled,
                   memSnapshotID, markedRunning, started>>

\* The caller's context is cancelled.
Cancel ==
    /\ ~cancelled
    /\ pc # "done"
    /\ cancelled' = TRUE
    /\ UNCHANGED <<fvars, uvars, hvars, snapshots, stored, siteRecords, fetched, schemaCfg, maxRetries,
                   retryBaseWait, pc, prun, attempt, perr, lastErr, ret,
                   memSnapshotID, markedRunning, started, lastWrite>>

\* Run 1 of tenant tA was created queued by HandleCreateRun and handed to
\* ExecuteWithRetry.
PipelineInit ==
    /\ idem = {}
    /\ runs = [id \in {1} |-> NewRun(1, "tA", "")]
    /\ launched = {1}
    /\ req = [r \in Reqs |-> NoReq]
    /\ hpc = [r \in Reqs |-> "idle"]
    /\ hsnap = [r \in Reqs |-> {}]
    /\ hclaim = [r \in Reqs |-> NoClaim]
    /\ hresp = [r \in Reqs |-> 0]
    /\ hexisting = [r \in Reqs |-> NoRun]
    /\ snapshots = {}
    /\ stored = <<>>
    /\ siteRecords = <<>>
    /\ fetched = FALSE
    /\ schemaCfg \in SchemaCfgs
    /\ maxRetries \in 0..MaxRetries
    /\ retryBaseWait \in BaseWaits
    /\ pc = "loop"
    /\ prun = 1
    /\ attempt = 0
    /\ perr = ""
    /\ lastErr = ""
    /\ ret = "none"
    /\ cancelled = FALSE
    /\ memSnapshotID = NoSnapshot
    /\ markedRunning = FALSE
    /\ started = 0
    /\ lastWrite = NoWrite
    /\ uploads = {}
    /\ ufound = [r \in Reqs |-> NotChecked]
    /\ callArgs = <<>>
    /\ callResult = <<>>

\* No request has arrived and no pipeline has been launched.
ClaimInit ==
    /\ idem = {}
    /\ runs = <<>>
    /\ launched = {}
    /\ req = [r \in Reqs |-> NoReq]
    /\ hpc = [r \in Reqs |-> "idle"]
    /\ hsnap = [r \in Reqs |-> {}]
    /\ hclaim = [r \in Reqs |-> NoClaim]
    /\ hresp = [r \in Reqs |-> 0]
    /\ hexisting = [r \in Reqs |-> NoRun]
    /\ snapshots = {}
    /\ stored = <<>>
    /\ siteRecords = <<>>
    /\ fetched = FALSE
    /\ schemaCfg = "ok"
    /\ maxRetries = 0
    /\ retryBaseWait = 0
    /\ pc = "idle"
    /\ prun = NoRun
    /\ attempt = 0
    /\ perr = ""
    /\ lastErr = ""
    /\ ret = "none"
    /\ cancelled = FALSE
    /\ memSnapshotID = NoSnapshot
    /\ markedRunning = FALSE
    /\ started = 0
    /\ lastWrite = NoWrite
    /\ uploads = {}
    /\ ufound = [r \in Reqs |-> NotChecked]
    /\ callArgs = <<>>
    /\ callResult = <<>>

PipelineNext ==
    \/ StartAttempt
    \/ MarkRunning
    \/ ResolveSchema
    \/ CreateSnapshot
    \/ FetchSiteRecords
    \/ SucceedEmpty
    \/ InsertRecommendations
    \/ MarkSucceeded
    \/ handleExecutionError
    \/ BackoffElapsed
    \/ BackoffCancelled
    \/ Exhausted
    \/ Cancel

\* The site records of the run's upload, written before the run was created:
\* none, one that scores, one that scores with one that does not parse.
FixedInputs == {<<>>, <<40>>, <<70, BadJSON>>}

\* Run 1 of tenant tA, handed to ExecuteWithRetry, with its upload's records.
FixedInputInit ==
    /\ idem = {}
    /\ runs = [id \in {1} |-> NewRun(1, "tA", "")]
    /\ launched = {1}
    /\ req = [r \in Reqs |-> NoReq]
    /\ hpc = [r \in Reqs |-> "idle"]
    /\ hsnap = [r \in Reqs |-> {}]
    /\ hclaim = [r \in Reqs |-> NoClaim]
    /\ hresp = [r \in Reqs |-> 0]
    /\ hexisting = [r \in Reqs |-> NoRun]
    /\ snapshots = {}
    /\ stored = <<>>
    /\ siteRecords \in FixedInputs
    /\ fetched = TRUE
    /\ schemaCfg \in SchemaCfgs
    /\ maxRetries \in 0..MaxRetries
    /\ retryBaseWait \in BaseWaits
    /\ pc = "loop"
    /\ prun = 1
    /\ attempt = 0
    /\ perr = ""
    /\ lastErr = ""
    /\ ret = "none"
    /\ cancelled = FALSE
    /\ memSnapshotID = NoSnapshot
    /\ markedRunning = FALSE
    /\ started = 0
    /\ lastWrite = NoWrite
    /\ uploads = {}
    /\ ufound = [r \in Reqs |-> NotChecked]
    /\ callArgs = <<>>
    /\ callResult = <<>>

\* The steps of ExecuteWithRetry itself: every store call returns and the
\* timer of a backoff fires, so a step that can be taken is taken.
PipelineSteps ==
    \/ StartAttempt
    \/ MarkRunning
    \/ ResolveSchema
    \/ CreateSnapshot
    \/ FetchSiteRecords
    \/ SucceedEmpty
    \/ InsertRecommendations
    \/ MarkSucceeded
    \/ handleExecutionError
    \/ BackoffElapsed
    \/ BackoffCancelled
    \/ Exhausted

SpecPipeFair == FixedInputInit /\ [][PipelineNext]_vars /\ WF_vars(PipelineSteps)

SpecClaim == ClaimInit /\ [][HandlerNext]_vars

SpecPipe == PipelineInit /\ [][PipelineNext]_vars

SpecKeys == ClaimInit /\ [][KeysNext]_vars

(***************************************************************************)
(* schema.Resolve: global defaults merged with a tenant override.  A       *)
(* FieldDef keeps the members the resolver and the score function read     *)
(* (Type, Min, Max, Weight, Direction); Min and Max are *float64: <<>> is  *)
(* nil, <<v>> points at v.  A config is a parsed JSON document or one      *)
(* json.Unmarshal rejects.  Weights are written in tenths (10 is 1.0).     *)
(***************************************************************************)
NFields == 2                       \* field names known to the configs

\* Field names of the seeded global schema.
SeedFieldNames ==
    <<"site_id", "unemployment_rate", "labor_cost_index", "working_age_pop",
      "local_competitors", "avg_commute_time">>

FieldNames == {SeedFieldNames[i] : i \in 1..NFields}
WeightVals == {10, 30}

FieldDef(type, min, max, weight, direction) ==
    [Type |-> type, Min |-> min, Max |-> max, Weight |-> weight, Direction |-> direction]

\* The field definitions the resolver is given: they differ in their weight.
WeightedFieldDefs == {FieldDef("numeric", <<0>>, <<100>>, w, "maximize") : w \in WeightVals}

\* map[string]FieldDef: the maps from some of the field names to definitions.
FieldMaps == UNION {[D -> WeightedFieldDefs] : D \in SUBSET FieldNames}

\* map[string]float64: the maps from some of the field names to weights.
WeightMaps == UNION {[D -> WeightVals] : D \in SUBSET FieldNames}

GlobalConfigs ==
    [valid : {TRUE}, fields : FieldMaps, siteIDColumn : {"", "site_id"}]
    \cup {[valid |-> FALSE, fields |-> <<>>, siteIDColumn |-> ""]}

\* present = FALSE: no tenant config (empty or "null").
TenantConfigs ==
    [present : {TRUE}, valid : {TRUE}, fields : FieldMaps, weights : WeightMaps,
     siteIDColumn : {NullStr, "alt_id"}]
    \cup {[present |-> pr, valid |-> FALSE, fields |-> <<>>, weights |-> <<>>,
           siteIDColumn |-> NullStr] : pr \in BOOLEAN}

ResolveError(msg) ==
    [kind |-> "error", err |-> msg, Fields |-> <<>>, Weights |-> <<>>, SiteIDColumn |-> ""]

Resolved(fields, weights, col) ==
    [kind |-> "ok", err |-> "", Fields |-> fields, Weights |-> weights, SiteIDColumn |-> col]

\* Assigning every entry of o into m, the entries of m taking precedence.
Override_BaseWins(m, o) ==
    [k \in DOMAIN m \cup DOMAIN o |-> IF k \in DOMAIN m THEN m[k] ELSE o[k]]

\* for name, v := range o { m[name] = v }
Override(m, o) ==
    [k \in DOMAIN m \cup DOMAIN o |-> IF k \in DOMAIN o THEN o[k] ELSE m[k]]

\* resolved.Weights[name] = fieldDef.Weight, for every field of the map.
EmbeddedWeights(fields) == [name \in DOMAIN fields |-> fields[name].Weight]

\* The tenant's standalone weights applied without the existence check.
ApplyTenantWeights_IgnoresUnknown(fields, weights, tenantWeights, col) ==
    Resolved(fields,
             Override(weights, [name \in DOMAIN tenantWeights \cap DOMAIN fields |->
                                    tenantWeights[name]]),
             col)

\* for name, weight := range tenant.Weights: an unknown name is an error.
ApplyTenantWeights(fields, weights, tenantWeights, col) ==
    IF \E name \in DOMAIN tenantWeights : name \notin DOMAIN fields
    THEN ResolveError("cannot override weight for non-existent field")
    ELSE Resolved(fields, Override(weights, tenantWeights), col)

\* The validation of the parsed global config, without the two checks.
ValidateGlobal_Unchecked(global) == ""

\* The validation of the parsed global config: the error message, "" if none.
ValidateGlobal(global) ==
    IF global.siteIDColumn = ""
    THEN "global schema config must specify site_id_column"
    ELSE IF DOMAIN global.fields = {}
    THEN "global schema config must specify at least one field"
    ELSE ""

Resolve(global, tenant) ==
    IF ~global.valid THEN ResolveError("failed to parse global schema config")
    ELSE IF ValidateGlobal(global) # "" THEN ResolveError(ValidateGlobal(global))
    ELSE IF ~tenant.present
    THEN Resolved(global.fields, EmbeddedWeights(global.fields), global.siteIDColumn)
    ELSE IF ~tenant.valid THEN ResolveError("failed to parse tenant schema override")
    ELSE LET col == IF tenant.siteIDColumn # NullStr THEN tenant.siteIDColumn
                    ELSE global.siteIDColumn
             fields == Override(global.fields, tenant.fields)
             weights == Override(EmbeddedWeights(global.fields),
                                 EmbeddedWeights(tenant.fields))
         IN ApplyTenantWeights(fields, weights, tenant.weights, col)

NoCall == [kind |-> "none", err |-> "", Fields |-> <<>>, Weights |-> <<>>, SiteIDColumn |-> ""]

\* Any global config with any tenant config.
ResolveInit ==
    /\ callArgs \in [global : GlobalConfigs, tenant : TenantConfigs]
    /\ callResult = NoCall
    /\ idem = {}
    /\ runs = <<>>
    /\ launched = {}
    /\ req = [r \in Reqs |-> NoReq]
    /\ hpc = [r \in Reqs |-> "idle"]
    /\ hsnap = [r \in Reqs |-> {}]
    /\ hclaim = [r \in Reqs |-> NoClaim]
    /\ hresp = [r \in Reqs |-> 0]
    /\ hexisting = [r \in Reqs |-> NoRun]
    /\ snapshots = {}
    /\ stored = <<>>
    /\ siteRecords = <<>>
    /\ fetched = FALSE
    /\ schemaCfg = "ok"
    /\ maxRetries = 0
    /\ retryBaseWait = 0
    /\ pc = "idle"
    /\ prun = NoRun
    /\ attempt = 0
    /\ perr = ""
    /\ lastErr = ""
    /\ ret = "none"
    /\ cancelled = FALSE
    /\ memSnapshotID = NoSnapshot
    /\ markedRunning = FALSE
    /\ started = 0
    /\ lastWrite = NoWrite
    /\ uploads = {}
    /\ ufound = [r \in Reqs |-> NotChecked]

\* Resolve(globalConfig, tenantConfig) is called and returns.
CallResolve ==
    /\ callResult = NoCall
    /\ callResult' = Resolve(callArgs.global, callArgs.tenant)
    /\ UNCHANGED <<callArgs, hvars, pvars, uvars>>

ResolveNext == CallResolve

SpecResolve == ResolveInit /\ [][ResolveNext]_vars

(***************************************************************************)
(* UploadHandler.HandleUpload, one request r.  The candidate upload id is  *)
(* uuid.New(): distinct per request, modelled as r.                        *)
(***************************************************************************)
Hashes == {"h1", "h2"}             \* SHA-256 of the uploaded file's bytes

UploadRow(id, t, h, k) ==
    [id |-> id, tenant |-> t, hash |-> h, key |-> IF k = "" THEN NullStr ELSE k]

\* UploadRepository.GetByContentHash: the upload id, or NoUpload for nil.
GetByContentHash(table, t, h) ==
    IF \E u \in table : u.tenant = t /\ u.hash = h
    THEN (CHOOSE u \in table : u.tenant = t /\ u.hash = h).id
    ELSE NoUpload

\* UploadRepository.GetByID, scoped to the tenant.
GetUploadByID(table, t, id) ==
    IF \E u \in table : u.id = id /\ u.tenant = t THEN id ELSE NoUpload

\* The uploads table with the primary key and idx_uploads_idempotency only.
UploadConflict_NoHashIndex(table, u) ==
    \/ \E v \in table : v.id = u.id
    \/ /\ u.key # NullStr
       /\ \E v \in table : v.tenant = u.tenant /\ v.key = u.key

\* UploadRepository.Create fails on the primary key, on
\* idx_uploads_idempotency and on idx_uploads_content_hash.
UploadConflict(table, u) ==
    \/ \E v \in table : v.id = u.id
    \/ /\ u.key # NullStr
       /\ \E v \in table : v.tenant = u.tenant /\ v.key = u.key
    \/ \E v \in table : v.tenant = u.tenant /\ v.hash = u.hash

\* upload.go 55-61: the tenant, the key and the file of the request.
HandleUpload(r) ==
    /\ hpc[r] = "idle"
    /\ \E t \in Tenants, k \in Keys, h \in Hashes :
          /\ req' = [req EXCEPT ![r] = [tenant |-> t, key |-> k, upload |-> "",
                                        rtype |-> "upload", hash |-> h]]
          /\ hpc' = [hpc EXCEPT ![r] = IF k # "" THEN "claim" ELSE "file"]
    /\ UNCHANGED <<fvars, pvars, uvars, idem, runs, launched, hsnap, hclaim, hresp, hexisting>>

\* upload.go 63-71: 500 on an error; 409 with the existing upload on a duplicate.
UploadClaimReturn(r) ==
    /\ hpc[r] = "claim_ret"
    /\ IF hclaim[r].kind # "ok"
       THEN Finish(r, 500) /\ hexisting' = hexisting
       ELSE IF hclaim[r].AlreadyExists
       THEN /\ \E ok \in BOOLEAN :
                 hexisting' = [hexisting EXCEPT ![r] =
                     IF ok THEN GetUploadByID(uploads, req[r].tenant, hclaim[r].ResourceID)
                     ELSE NoUpload]
            /\ Finish(r, 409)
       ELSE /\ hpc' = [hpc EXCEPT ![r] = "file"]
            /\ UNCHANGED <<hresp, hexisting>>
    /\ UNCHANGED <<fvars, pvars, uvars, idem, runs, launched, req, hsnap, hclaim>>

\* upload.go 75-136: the form file is read, checked, saved and hashed.
ReadFile(r) ==
    /\ hpc[r] = "file"
    /\ \E code \in {0, 400, 413, 500} :
          IF code = 0
          THEN hpc' = [hpc EXCEPT ![r] = "check_hash"] /\ hresp' = hresp
          ELSE Finish(r, code)
    /\ UNCHANGED <<fvars, pvars, uvars, idem, runs, launched, req, hsnap, hclaim, hexisting>>

\* upload.go 141-157: GetByContentHash; 200 with the existing upload when it
\* returns one, on to the creation when it returns nil or an error.
CheckContentHash(r) ==
    /\ hpc[r] = "check_hash"
    /\ \E ok \in BOOLEAN :
          LET existing == IF ok THEN GetByContentHash(uploads, req[r].tenant, req[r].hash)
                          ELSE NoUpload IN
          /\ ufound' = [ufound EXCEPT ![r] = existing]
          /\ IF existing # NoUpload
             THEN Finish(r, 200)
             ELSE hpc' = [hpc EXCEPT ![r] = "create_upload"] /\ hresp' = hresp
    /\ UNCHANGED <<fvars, pvars, uploads, idem, runs, launched, req, hsnap, hclaim, hexisting>>

\* upload.go 180-204: uploadRepo.Create; 500 when it fails.
CreateUpload(r) ==
    /\ hpc[r] = "create_upload"
    /\ \E ok \in BOOLEAN :
          LET u == UploadRow(r, req[r].tenant, req[r].hash, req[r].key) IN
          IF ok /\ ~UploadConflict(uploads, u)
          THEN /\ uploads' = uploads \cup {u}
               /\ hpc' = [hpc EXCEPT ![r] = "ingest"]
               /\ hresp' = hresp
          ELSE /\ Finish(r, 500)
               /\ uploads' = uploads
    /\ UNCHANGED <<fvars, pvars, ufound, idem, runs, launched, req, hsnap, hclaim, hexisting>>

\* upload.go 206-376: resolve the schema, parse, insert the site records and
\* update the upload; the updates keep the row's id, tenant, key and hash.
IngestUpload(r) ==
    /\ hpc[r] = "ingest"
    /\ \E code \in {201, 400, 500} : Finish(r, code)
    /\ UNCHANGED <<fvars, pvars, uvars, idem, runs, launched, req, hsnap, hclaim, hexisting>>

UploadNext ==
    \E r \in Reqs :
        \/ HandleUpload(r)
        \/ ClaimBegin(r)
        \/ ClaimExec(r)
        \/ UploadClaimReturn(r)
        \/ ReadFile(r)
        \/ CheckContentHash(r)
        \/ CreateUpload(r)
        \/ IngestUpload(r)

SpecUpload == ClaimInit /\ [][UploadNext]_vars

(***************************************************************************)
(* One HandleCreateRun request together with the pipeline goroutine it     *)
(* launches.  The goroutine runs ExecuteWithRetry with context.Background()*)
(* (run.go 153-156), which is never cancelled.                             *)
(***************************************************************************)
FirstReq == 1

\* The goroutine of run.go 153-156 is scheduled and enters ExecuteWithRetry.
PipelineStart ==
    /\ pc = "idle"
    /\ \E r \in launched :
          prun' = r
    /\ pc' = "loop"
    /\ UNCHANGED <<fvars, uvars, hvars, snapshots, stored, siteRecords, fetched, schemaCfg, maxRetries,
                   retryBaseWait, attempt, perr, lastErr, ret, cancelled,
                   memSnapshotID, markedRunning, started, lastWrite>>

\* No request has arrived; the pipeline is configured with one retry.
RunInit ==
    /\ idem = {}
    /\ runs = <<>>
    /\ launched = {}
    /\ req = [r \in Reqs |-> NoReq]
    /\ hpc = [r \in Reqs |-> "idle"]
    /\ hsnap = [r \in Reqs |-> {}]
    /\ hclaim = [r \in Reqs |-> NoClaim]
    /\ hresp = [r \in Reqs |-> 0]
    /\ hexisting = [r \in Reqs |-> NoRun]
    /\ snapshots = {}
    /\ stored = <<>>
    /\ siteRecords = <<>>
    /\ fetched = FALSE
    /\ schemaCfg = "ok"
    /\ maxRetries = 1
    /\ retryBaseWait = 1000
    /\ pc = "idle"
    /\ prun = NoRun
    /\ attempt = 0
    /\ perr = ""
    /\ lastErr = ""
    /\ ret = "none"
    /\ cancelled = FALSE
    /\ memSnapshotID = NoSnapshot
    /\ markedRunning = FALSE
    /\ started = 0
    /\ lastWrite = NoWrite
    /\ uploads = {}
    /\ ufound = [r \in Reqs |-> NotChecked]
    /\ callArgs = <<>>
    /\ callResult = <<>>

RunNext ==
    \/ HandleCreateRun(FirstReq)
    \/ ClaimBegin(FirstReq)
    \/ ClaimExec(FirstReq)
    \/ ClaimReturn(FirstReq)
    \/ CreateRun(FirstReq)
    \/ LaunchPipeline(FirstReq)
    \/ Respond(FirstReq)
    \/ PipelineStart
    \/ StartAttempt
    \/ MarkRunning
    \/ ResolveSchema
    \/ CreateSnapshot
    \/ FetchSiteRecords
    \/ SucceedEmpty
    \/ InsertRecommendations
    \/ MarkSucceeded
    \/ handleExecutionError
    \/ BackoffElapsed
    \/ Exhausted

SpecRun == RunInit /\ [][RunNext]_vars

(***************************************************************************)
(* scoring.DefaultScoreFunc on one record and one resolved schema.  The    *)
(* float64 values are written in fixed point: record values and bounds in  *)
(* units, weights in tenths, normalized values in thousandths (1000 is     *)
(* 1.0), contributions and rawScore in ten-thousandths, finalScore in      *)
(* thousandths of a point (100000 is 100.0).  The inputs stay in the range *)
(* in which float64 arithmetic neither overflows nor loses these digits.   *)
(* Factors is the set of the factors; their order and the generated texts  *)
(* (Reason, Summary) are not represented.                                  *)
(***************************************************************************)
ScoreFieldNames == {"unemployment_rate", "local_competitors"}

\* interface{} values of a record: a JSON number, a string, another type.
Number(n) == [kind |-> "number", parses |-> TRUE, n |-> n]
NumericString(n) == [kind |-> "string", parses |-> TRUE, n |-> n]
TextValue == [kind |-> "string", parses |-> FALSE, n |-> 0]
BoolValue == [kind |-> "bool", parses |-> FALSE, n |-> 0]
Missing == [kind |-> "missing", parses |-> FALSE, n |-> 0]

NumberVals == {-50, 25, 150}
RecordValues == {Number(n) : n \in NumberVals} \cup {NumericString(25), TextValue, BoolValue}

\* map[string]interface{}: the record holding the chosen values.
SiteData(choice) ==
    [f \in {g \in DOMAIN choice : choice[g] # Missing} |-> choice[f]]

ScoreRecords == {SiteData(c) : c \in [ScoreFieldNames -> RecordValues \cup {Missing}]}

\* Definitions of unemployment_rate: ordinal with both bounds (in order,
\* inverted, equal) or with min only, either direction, embedded weight 0 or
\* 1.0; or a text field.
UnemploymentRateDefs ==
    {FieldDef("percentage", b[1], b[2], w, d) :
        b \in {<< <<0>>, <<100>> >>, << <<0>>, <<>> >>,
               << <<100>>, <<0>> >>, << <<50>>, <<50>> >>},
        w \in {0, 10}, d \in {"maximize", "minimize"}}
    \cup {FieldDef("text", <<>>, <<>>, 10, "maximize")}

\* local_competitors as the seeded global schema declares it.
LocalCompetitorsDef == FieldDef("integer", <<0>>, <<>>, 8, "minimize")

\* The definitions a global config may give a field.
ScoreFieldDefs(fieldName) ==
    IF fieldName = "local_competitors" THEN {LocalCompetitorsDef}
    ELSE UnemploymentRateDefs

ScoreGlobalConfigs ==
    {[valid |-> TRUE, fields |-> fields, siteIDColumn |-> "site_id"] :
        fields \in {m \in UNION {[D -> UnemploymentRateDefs \cup {LocalCompetitorsDef}] :
                                     D \in SUBSET ScoreFieldNames} :
                        \A f \in DOMAIN m : m[f] \in ScoreFieldDefs(f)}}

\* No tenant config, or one that overrides weights only.
ScoreTenantConfigs ==
    {[present |-> FALSE, valid |-> FALSE, fields |-> <<>>, weights |-> <<>>,
      siteIDColumn |-> NullStr]}
    \cup {[present |-> TRUE, valid |-> TRUE, fields |-> <<>>, weights |-> weights,
           siteIDColumn |-> NullStr] :
             weights \in UNION {[D -> {-10, 0, 20}] : D \in SUBSET ScoreFieldNames}}

\* What Resolve returns for these configs: a schema, or nil with an error.
ScoreSchemas == {Resolve(g, t) : g \in ScoreGlobalConfigs, t \in ScoreTenantConfigs}

mathMax(a, b) == IF a >= b THEN a ELSE b
mathMin(a, b) == IF a <= b THEN a ELSE b

\* a / b, rounded down.
Quot(a, b) == IF b < 0 THEN (0 - a) \div (0 - b) ELSE a \div b

isNumericFieldType(fieldType) ==
    fieldType \in {"numeric", "integer", "percentage", "index", "population"}

\* Every value converts, a value that is no number as 0.
toFloat64_TextAsZero(value) == [ok |-> TRUE, v |-> value.n]

\* toFloat64: numbers, and strings that parse as a JSON number, convert.
toFloat64(value) ==
    IF value.kind = "number" THEN [ok |-> TRUE, v |-> value.n]
    ELSE IF value.kind = "string" /\ value.parses THEN [ok |-> TRUE, v |-> value.n]
    ELSE [ok |-> FALSE, v |-> 0]

\* normalizeValue, in thousandths.
normalizeValue(value, min, max, direction) ==
    IF min = <<>> \/ max = <<>>
    THEN mathMax(0, mathMin(1000, Quot(value * 1000, 100)))
    ELSE LET minVal == min[1]
             maxVal == max[1]
         IN IF maxVal = minVal THEN 500
            ELSE LET normalized ==
                         mathMax(0, mathMin(1000,
                             Quot((value - minVal) * 1000, maxVal - minVal)))
                 IN IF direction = "minimize" THEN 1000 - normalized ELSE normalized

\* The weight of the field's own definition, whatever Weights holds.
EffectiveWeight_Embedded(schema, fieldName) == schema.Fields[fieldName].Weight

\* weight := resolvedSchema.Weights[fieldName]; 0 for a missing key.
EffectiveWeight(schema, fieldName) ==
    IF fieldName \in DOMAIN schema.Weights THEN schema.Weights[fieldName] ELSE 0

\* The fields the loop does not skip.
ScoredFields(siteData, schema) ==
    {fieldName \in DOMAIN schema.Fields :
        /\ isNumericFieldType(schema.Fields[fieldName].Type)
        /\ schema.Fields[fieldName].Weight # 0
        /\ EffectiveWeight(schema, fieldName) # 0
        /\ fieldName \in DOMAIN siteData
        /\ toFloat64(siteData[fieldName]).ok}

\* models.ExplanationFactor of a field that is not skipped.
Factor(siteData, schema, fieldName) ==
    LET fieldDef == schema.Fields[fieldName]
        weight == EffectiveWeight(schema, fieldName)
        numValue == toFloat64(siteData[fieldName]).v
        normalizedValue ==
            normalizeValue(numValue, fieldDef.Min, fieldDef.Max, fieldDef.Direction)
    IN [Name |-> fieldName, Value |-> numValue, Weight |-> weight,
        Contribution |-> normalizedValue * weight,
        Direction |-> IF fieldDef.Direction = "minimize" THEN "minimize"
                      ELSE "maximize"]

Factors(siteData, schema) ==
    {Factor(siteData, schema, fieldName) : fieldName \in ScoredFields(siteData, schema)}

RECURSIVE SumContributions(_)
SumContributions(factors) ==
    IF factors = {} THEN 0
    ELSE LET factor == CHOOSE x \in factors : TRUE
         IN factor.Contribution + SumContributions(factors \ {factor})

RECURSIVE SumWeights(_)
SumWeights(factors) ==
    IF factors = {} THEN 0
    ELSE LET factor == CHOOSE x \in factors : TRUE
         IN factor.Weight + SumWeights(factors \ {factor})

totalWeightedScore(siteData, schema) == SumContributions(Factors(siteData, schema))

maxPossibleScore(siteData, schema) == SumWeights(Factors(siteData, schema))

\* The score left as computed.
BoundScore_Unclamped(score) == score

\* math.Max(0, math.Min(100, finalScore))
BoundScore(score) == mathMax(0, mathMin(100000, score))

ScoreError(msg) ==
    [kind |-> "error", err |-> msg, rawScore |-> 0, finalScore |-> 0, Factors |-> {}]

\* Only the schema is checked.
InputError_EmptyAllowed(siteData, schema) ==
    IF schema.kind # "ok" THEN "resolved schema cannot be nil" ELSE ""

\* The two argument checks: the error message, "" if none.
InputError(siteData, schema) ==
    IF schema.kind # "ok" THEN "resolved schema cannot be nil"
    ELSE IF DOMAIN siteData = {} THEN "site data cannot be empty"
    ELSE ""

DefaultScoreFunc(siteData, schema) ==
    IF InputError(siteData, schema) # "" THEN ScoreError(InputError(siteData, schema))
    ELSE LET rawScore == totalWeightedScore(siteData, schema)
             maxPossible == maxPossibleScore(siteData, schema)
         IN [kind |-> "ok", err |-> "", rawScore |-> rawScore,
             finalScore |-> BoundScore(IF maxPossible > 0
                                       THEN Quot(rawScore * 100, maxPossible)
                                       ELSE 0),
             Factors |-> Factors(siteData, schema)]

NoScore == [kind |-> "none", err |-> "", rawScore |-> 0, finalScore |-> 0, Factors |-> {}]

\* Any of the schemas with any of the records.
ScoreInit ==
    /\ callArgs \in [schema : ScoreSchemas, siteData : ScoreRecords]
    /\ callResult = NoScore
    /\ idem = {}
    /\ runs = <<>>
    /\ launched = {}
    /\ req = [r \in Reqs |-> NoReq]
    /\ hpc = [r \in Reqs |-> "idle"]
    /\ hsnap = [r \in Reqs |-> {}]
    /\ hclaim = [r \in Reqs |-> NoClaim]
    /\ hresp = [r \in Reqs |-> 0]
    /\ hexisting = [r \in Reqs |-> NoRun]
    /\ snapshots = {}
    /\ stored = <<>>
    /\ siteRecords = <<>>
    /\ fetched = FALSE
    /\ schemaCfg = "ok"
    /\ maxRetries = 0
    /\ retryBaseWait = 0
    /\ pc = "idle"
    /\ prun = NoRun
    /\ attempt = 0
    /\ perr = ""
    /\ lastErr = ""
    /\ ret = "none"
    /\ cancelled = FALSE
    /\ memSnapshotID = NoSnapshot
    /\ markedRunning = FALSE
    /\ started = 0
    /\ lastWrite = NoWrite
    /\ uploads = {}
    /\ ufound = [r \in Reqs |-> NotChecked]

\* DefaultScoreFunc(siteData, resolvedSchema) is called and returns.
CallScore ==
    /\ callResult = NoScore
    /\ callResult' = DefaultScoreFunc(callArgs.siteData, callArgs.schema)
    /\ UNCHANGED <<callArgs, hvars, pvars, uvars>>

ScoreNext == CallScore

SpecScore == ScoreInit /\ [][ScoreNext]_vars

(***************************************************************************)
(* The scoring loop, the sort and the ranking of Execute on one fetched    *)
(* set of site records.                                                    *)
(***************************************************************************)
MaxSorted == 3                     \* site records of the fetched set

FetchedSets == UNION {[1..n -> RecordData] : n \in 0..MaxSorted}

NotRanked == [called |-> FALSE, recommendations |-> <<>>]

\* Any fetched set.
RankInit ==
    /\ callArgs \in FetchedSets
    /\ callResult = NotRanked
    /\ idem = {}
    /\ runs = <<>>
    /\ launched = {}
    /\ req = [r \in Reqs |-> NoReq]
    /\ hpc = [r \in Reqs |-> "idle"]
    /\ hsnap = [r \in Reqs |-> {}]
    /\ hclaim = [r \in Reqs |-> NoClaim]
    /\ hresp = [r \in Reqs |-> 0]
    /\ hexisting = [r \in Reqs |-> NoRun]
    /\ snapshots = {}
    /\ stored = <<>>
    /\ siteRecords = <<>>
    /\ fetched = FALSE
    /\ schemaCfg = "ok"
    /\ maxRetries = 0
    /\ retryBaseWait = 0
    /\ pc = "idle"
    /\ prun = NoRun
    /\ attempt = 0
    /\ perr = ""
    /\ lastErr = ""
    /\ ret = "none"
    /\ cancelled = FALSE
    /\ memSnapshotID = NoSnapshot
    /\ markedRunning = FALSE
    /\ started = 0
    /\ lastWrite = NoWrite
    /\ uploads = {}
    /\ ufound = [r \in Reqs |-> NotChecked]

\* The records are scored, sorted and ranked.
RankRecords ==
    /\ ~callResult.called
    /\ callResult' = [called |-> TRUE, recommendations |-> Recommendations(callArgs)]
    /\ UNCHANGED <<callArgs, hvars, pvars, uvars>>

RankNext == RankRecords

SpecRank == RankInit /\ [][RankNext]_vars

(***************************************************************************)
(* Pipeline.calculateBackoff.  Its arithmetic is int64: a value is kept as *)
(* its 8 bytes in two's complement, the lowest byte first, and every       *)
(* operation wraps as the machine's does.                                  *)
(***************************************************************************)
MaxAttemptIndex == 64              \* attempt indexes 0..MaxAttemptIndex

RECURSIVE Pow2(_)
Pow2(i) == IF i = 0 THEN 1 ELSE 2 * Pow2(i - 1)

RECURSIVE BytesOf(_, _)
BytesOf(n, count) ==
    IF count = 0 THEN <<>> ELSE <<n % 256>> \o BytesOf(n \div 256, count - 1)

\* int64(n) for 0 <= n < 2^31.
Int64Of(n) == BytesOf(n, 8)

MinInt64 == <<0, 0, 0, 0, 0, 0, 0, 128>>
MaxInt64 == <<255, 255, 255, 255, 255, 255, 255, 127>>
IsNegative(x) == x[8] >= 128

\* x << (8 * count)
ShiftBytes(x, count) ==
    IF count >= 8 THEN Int64Of(0) ELSE BytesOf(0, count) \o SubSeq(x, 1, 8 - count)

\* x + y, wrapping: byte by byte from the lowest, with the carry.
RECURSIVE AddFrom(_, _, _, _)
AddFrom(x, y, i, carry) ==
    IF i > 8 THEN <<>>
    ELSE <<(x[i] + y[i] + carry) % 256>>
         \o AddFrom(x, y, i + 1, (x[i] + y[i] + carry) \div 256)

Add64(x, y) == AddFrom(x, y, 1, 0)

\* -x: the complement plus one.
Neg64(x) == Add64(<<255 - x[1], 255 - x[2], 255 - x[3], 255 - x[4],
                    255 - x[5], 255 - x[6], 255 - x[7], 255 - x[8]>>, Int64Of(1))

\* y * b for one byte b, wrapping.
RECURSIVE MulByteFrom(_, _, _, _)
MulByteFrom(y, b, i, carry) ==
    IF i > 8 THEN <<>>
    ELSE <<(y[i] * b + carry) % 256>>
         \o MulByteFrom(y, b, i + 1, (y[i] * b + carry) \div 256)

\* x * y, wrapping: the sum of (y * x[i]) << 8(i - 1) over the bytes i of x.
RECURSIVE MulFrom(_, _, _)
MulFrom(x, y, i) ==
    IF i > 8 THEN Int64Of(0)
    ELSE IF x[i] = 0 THEN MulFrom(x, y, i + 1)
    ELSE Add64(ShiftBytes(MulByteFrom(y, x[i], 1, 0), i - 1), MulFrom(x, y, i + 1))

Mul64(x, y) == MulFrom(x, y, 1)

\* x / 10 for x >= 0, by long division from the highest byte.
RECURSIVE DivTenFrom(_, _, _)
DivTenFrom(x, i, rest) ==
    IF i < 1 THEN <<>>
    ELSE DivTenFrom(x, i - 1, (256 * rest + x[i]) % 10)
         \o <<(256 * rest + x[i]) \div 10>>

DivTen(x) == DivTenFrom(x, 8, 0)

\* x / 2 for x >= 0.
Half(x) ==
    <<x[1] \div 2 + 128 * (x[2] % 2), x[2] \div 2 + 128 * (x[3] % 2),
      x[3] \div 2 + 128 * (x[4] % 2), x[4] \div 2 + 128 * (x[5] % 2),
      x[5] \div 2 + 128 * (x[6] % 2), x[6] \div 2 + 128 * (x[7] % 2),
      x[7] \div 2 + 128 * (x[8] % 2), x[8] \div 2>>

\* The value of 0 <= x < 2^31.
IntOf(x) == x[1] + 256 * x[2] + 65536 * x[3] + 16777216 * x[4]

\* x > 300000 (maxMs), x >= 0.
AboveMaxMs(x) ==
    \/ \E i \in 5..8 : x[i] # 0
    \/ x[4] >= 128
    \/ IntOf(x) > 300000

\* int64(math.Pow(2, float64(attempt))): exact up to 2^62.  From 2^63 on
\* the float is outside int64 and the conversion gives what the platform
\* gives: the least int64 (amd64) or the greatest (arm64).
PowInt64(attemptIndex) ==
    IF attemptIndex <= 62
    THEN {ShiftBytes(Int64Of(Pow2(attemptIndex % 8)), attemptIndex \div 8)}
    ELSE {MinInt64, MaxInt64}

BackoffPanic == [kind |-> "panic", negative |-> FALSE, ms |-> 0]

\* time.Duration(totalMs) * time.Millisecond, by totalMs after the cap:
\* negative says totalMs < 0 (no backoff of that many milliseconds exists,
\* and the product wraps once more); ms is totalMs otherwise.
BackoffOf(total) ==
    IF IsNegative(total) THEN [kind |-> "duration", negative |-> TRUE, ms |-> 0]
    ELSE IF AboveMaxMs(total) THEN [kind |-> "duration", negative |-> FALSE, ms |-> 300000]
    ELSE [kind |-> "duration", negative |-> FALSE, ms |-> IntOf(total)]

\* The values rand.Int63n(n) is followed for, n - 1 being greatest: the
\* least, the middle and the greatest of 0..n-1.
JitterPicks(greatest) == {Int64Of(0), Half(greatest), greatest}

\* exponentialMs/10 + 1 <= 0: exponentialMs <= -10 (Go's / truncates).
JitterRangeEmpty(exponentialMs) ==
    /\ IsNegative(exponentialMs)
    /\ \A n \in 1..9 : exponentialMs # Neg64(Int64Of(n))

\* calculateBackoff: the durations it can return, or the panic of
\* rand.Int63n on an argument that is not positive.
calculateBackoff(baseMs, attemptIndex) ==
    UNION {LET exponentialMs == Mul64(Int64Of(baseMs), pow)
           IN IF JitterRangeEmpty(exponentialMs) THEN {BackoffPanic}
              ELSE IF IsNegative(exponentialMs) THEN {BackoffOf(exponentialMs)}
              ELSE {BackoffOf(Add64(exponentialMs, jitterMs)) :
                       jitterMs \in JitterPicks(DivTen(exponentialMs))}
           : pow \in PowInt64(attemptIndex)}

\* p.retryBaseWait.Milliseconds()
BaseWaitsMs == {0, 1, 4, 1000}

NoBackoff == [kind |-> "none", negative |-> FALSE, ms |-> 0]

\* Any base wait with any attempt index.
BackoffInit ==
    /\ callArgs \in [baseMs : BaseWaitsMs, attempt : 0..MaxAttemptIndex]
    /\ callResult = NoBackoff
    /\ idem = {}
    /\ runs = <<>>
    /\ launched = {}
    /\ req = [r \in Reqs |-> NoReq]
    /\ hpc = [r \in Reqs |-> "idle"]
    /\ hsnap = [r \in Reqs |-> {}]
    /\ hclaim = [r \in Reqs |-> NoClaim]
    /\ hresp = [r \in Reqs |-> 0]
    /\ hexisting = [r \in Reqs |-> NoRun]
    /\ snapshots = {}
    /\ stored = <<>>
    /\ siteRecords = <<>>
    /\ fetched = FALSE
    /\ schemaCfg = "ok"
    /\ maxRetries = 0
    /\ retryBaseWait = 0
    /\ pc = "idle"
    /\ prun = NoRun
    /\ attempt = 0
    /\ perr = ""
    /\ lastErr = ""
    /\ ret = "none"
    /\ cancelled = FALSE
    /\ memSnapshotID = NoSnapshot
    /\ markedRunning = FALSE
    /\ started = 0
    /\ lastWrite = NoWrite
    /\ uploads = {}
    /\ ufound = [r \in Reqs |-> NotChecked]

\* p.calculateBackoff(attempt) is called and returns, or panics.
CallBackoff ==
    /\ callResult = NoBackoff
    /\ callResult' \in calculateBackoff(callArgs.baseMs, callArgs.attempt)
    /\ UNCHANGED <<callArgs, hvars, pvars, uvars>>

BackoffNext == CallBackoff

SpecBackoff == BackoffInit /\ [][BackoffNext]_vars

(***************************************************************************)
(* Properties of the claim store and of HandleCreateRun (SpecClaim).       *)
(***************************************************************************)
SameKey(r1, r2) ==
    /\ req[r1].tenant = req[r2].tenant
    /\ req[r1].key = req[r2].key
    /\ req[r1].key # ""

\* Claim returned to request r, and not with a storage-layer error.
ClaimAnswered(r) == hclaim[r].kind \notin {"none", "storeErr"}

\* C1: of the Claim calls that present one non-empty (tenant, key,
\* resourceType), exactly one candidate id is stored; the caller whose
\* candidate it is gets alreadyExisted = false, and every other caller gets
\* alreadyExisted = true with the stored resourceId, never its own candidate
\* and never an empty or error result.
C1_ClaimRaceFree ==
    \A r \in Reqs :
        ClaimAnswered(r) =>
            /\ hclaim[r].kind = "ok"
            /\ Cardinality(KeyRows(idem, req[r].tenant, req[r].key, "scoring_run")) = 1
            /\ \A row \in KeyRows(idem, req[r].tenant, req[r].key, "scoring_run") :
                  /\ hclaim[r].ResourceID = row.rid
                  /\ hclaim[r].AlreadyExists = (row.rid # r)

\* C2: of the HandleCreateRun requests of one tenant that carry one non-empty
\* idempotency key against a valid upload, at most one creates a run record
\* and at most one launches the pipeline; every other one takes the 409 path.
C2_OneRunPerKey ==
    \A r1, r2 \in Reqs :
        (r1 # r2 /\ SameKey(r1, r2)) =>
            /\ ~(r1 \in DOMAIN runs /\ r2 \in DOMAIN runs)
            /\ ~(r1 \in launched /\ r2 \in launched)
            /\ (/\ hpc[r1] = "done" /\ hpc[r2] = "done"
                /\ ClaimAnswered(r1) /\ ClaimAnswered(r2))
               => (hresp[r1] = 409 \/ hresp[r2] = 409)

\* C16: a create-run request that finds its key already claimed answers 409
\* with the existing run, the run record of the request that claimed the key.
C16_ConflictReturnsExistingRun ==
    \A r \in Reqs :
        hresp[r] = 409 =>
            /\ hexisting[r] = hclaim[r].ResourceID
            /\ hexisting[r] \in DOMAIN runs

\* C38: once HandleCreateRun has returned, every scoring_run claim it recorded
\* names a run record that exists: a creation that fails after the claim
\* does not leave the key claimed for a run that was never created.
C38_ClaimedRunExists ==
    \A r \in Reqs :
        \A row \in idem :
            (hpc[r] = "done" /\ row.rtype = "scoring_run" /\ row.rid = r) =>
                r \in DOMAIN runs

(***************************************************************************)
(* Properties of the pipeline and its retry wrapper (SpecPipe).            *)
(***************************************************************************)
Run == runs[prun]
Returned == ret # "none"
Terminal == {"succeeded", "failed"}

\* The steps whose failure Execute hands to handleExecutionError.
HandledSteps ==
    {"update_status_running", "get_global_active", "no_active_global",
     "get_tenant_active", "resolve", "create_snapshot", "fetch_site_records",
     "bulk_insert_recommendations"}

\* The last attempt has ended in a failure that handleExecutionError handled.
AttemptEndedHandled == pc \in {"backoff", "exhausted"} /\ lastErr \in HandledSteps

\* This step is a status update made inside an attempt.
AttemptWrite ==
    /\ pc \in {"update_status_running", "succeeded_empty",
               "update_status_succeeded", "handle_error"}
    /\ pc' # pc

\* C3: when ExecuteWithRetry returns, the run's persisted status is
\* succeeded or failed, never queued or running.
C3_ReturnsTerminal == Returned => Run.status \in Terminal

\* C4 (as claimed): an attempt never writes queued, and marks the run
\* succeeded or failed only after the same attempt marked it running.
C4_TerminalOnlyAfterRunning ==
    [][(AttemptWrite /\ lastWrite'.applied) =>
          /\ lastWrite'.status # "queued"
          /\ lastWrite'.status \in Terminal => markedRunning]_vars

\* C4 (amended): an attempt never writes queued, marks the run succeeded only
\* after the same attempt marked it running, and marks it failed only after it
\* marked it running or after its own update to running failed.
C4_TerminalOnlyAfterRunningTried ==
    [][(AttemptWrite /\ lastWrite'.applied) =>
          /\ lastWrite'.status # "queued"
          /\ lastWrite'.status = "succeeded" => markedRunning
          /\ lastWrite'.status = "failed" =>
                (markedRunning \/ perr = "update_status_running")]_vars

C4_Witness ==
    /\ pc = "backoff" /\ ~markedRunning
    /\ lastErr = "update_status_running"
    /\ lastWrite.applied /\ Run.status = "failed"

\* C5: once the persisted status is succeeded, the pipeline starts no attempt
\* and no backoff, and changes neither the run record, nor the snapshots, nor
\* the results.
C5_SucceededAbsorbing ==
    [][(Run.status = "succeeded") =>
          /\ UNCHANGED <<runs, snapshots, stored, started, attempt, lastWrite>>
          /\ pc' \notin {"loop", "backoff"}]_vars

C5_Witness ==
    /\ Run.status = "succeeded" /\ pc = "done" /\ ret = "nil"
    /\ started = 2 /\ Len(stored) > 0

\* C6: the results persisted for the run carry exactly the ranks 1..N, each
\* once, in non-increasing order of finalScore, also after several attempts.
C6_RanksDense ==
    /\ \A k \in 1..Cardinality({stored[i].SiteID : i \in 1..Len(stored)}) :
          Cardinality({i \in 1..Len(stored) : stored[i].Ranking = k}) = 1
    /\ \A i \in 1..Len(stored) :
          stored[i].Ranking \in 1..Cardinality({stored[j].SiteID : j \in 1..Len(stored)})
    /\ \A i, j \in 1..Len(stored) :
          stored[i].Ranking < stored[j].Ranking =>
              stored[i].FinalScore >= stored[j].FinalScore

\* C7 (as claimed): when every attempt has failed, ExecuteWithRetry has run
\* exactly maxRetries+1 attempts, issued the final update (failed, with the
\* composite message) and returned an error.
C7_ExhaustsAllAttempts ==
    (Returned /\ ret # "nil") =>
        /\ started = maxRetries + 1
        /\ ret = "err"
        /\ lastWrite.status = "failed"
        /\ lastWrite.lastError = CompositeError(maxRetries + 1, lastErr)

\* C7 (amended): the same, provided the context was not cancelled during a
\* backoff; the final update, when the store applies it, is what the run holds.
C7_ExhaustsUnlessCancelled ==
    (Returned /\ ret \notin {"nil", "ctx"}) =>
        /\ started = maxRetries + 1
        /\ ret = "err"
        /\ lastWrite.status = "failed"
        /\ lastWrite.lastError = CompositeError(maxRetries + 1, lastErr)
        /\ lastWrite.applied =>
              /\ Run.status = "failed"
              /\ Run.lastError = CompositeError(maxRetries + 1, lastErr)

C7_Witness ==
    /\ ret = "err" /\ maxRetries = 1 /\ started = 2
    /\ Run.status = "failed"
    /\ Run.lastError = CompositeError(2, "resolve")

\* C8: a cancellation during a backoff sleep makes ExecuteWithRetry return at
\* once: no further attempt and no status update; the run keeps its status.
C8_CancelStopsRetries ==
    [][(pc = "backoff" /\ cancelled /\ retryBaseWait > 0) =>
          /\ pc' = "done" /\ ret' = "ctx"
          /\ UNCHANGED <<runs, snapshots, stored, started, attempt, lastWrite>>]_vars

C8_Witness ==
    /\ ret = "ctx" /\ retryBaseWait > 0 /\ started = 1 /\ maxRetries = 1
    /\ Run.status = "running"

C10_SnapshotIdPersisted ==
    /\ memSnapshotID # NoSnapshot => Run.schemaConfigSnapshotId = memSnapshotID
    /\ Run.status = "succeeded" =>
          \E sn \in snapshots :
              sn.id = Run.schemaConfigSnapshotId /\ sn.runId = prun

\* The input records that score, by their position in the upload.
Scoreable == {i \in 1..Len(siteRecords) : siteRecords[i] \in Scores}

\* The site ids of the persisted results.
StoredSites == {stored[i].SiteID : i \in 1..Len(stored)}

\* C11: at most one schema snapshot exists for the run, whatever the number
\* of attempts.
C11_OneSnapshotPerRun ==
    Cardinality({sn \in snapshots : sn.runId = prun}) <= 1

\* C12: a run with an empty input record set ends its attempt with persisted
\* status succeeded, scoredCount 0 and no results, and reports no error.
C12_EmptyInputSucceeds ==
    (pc = "done" /\ fetched /\ Len(siteRecords) = 0) =>
        /\ ret = "nil"
        /\ Run.status = "succeeded"
        /\ Run.scoredCount = 0
        /\ Len(stored) = 0

\* C13: a record that fails to parse or to score never fails the attempt: it
\* is skipped, every other record is scored and persisted, and a succeeded
\* run's scoredCount is the number of records that produced a result.
C13_BadRecordSkipped ==
    /\ perr \in HandledSteps \cup {""}
    /\ lastErr \in HandledSteps \cup {"", "update_status_succeeded"}
    /\ pc = "update_status_succeeded" => StoredSites = Scoreable
    /\ (Run.status = "succeeded" /\ Len(siteRecords) > 0) =>
          /\ StoredSites = Scoreable
          /\ Run.scoredCount = Cardinality(Scoreable)
          /\ Run.scoredCount <= Len(siteRecords)

C13_Witness ==
    /\ Run.status = "succeeded" /\ Len(siteRecords) = 2
    /\ siteRecords[1] \in {BadJSON, Unscorable} /\ siteRecords[2] \in Scores
    /\ Run.scoredCount = 1 /\ StoredSites = {2}

\* C14: whenever the persisted status is succeeded, the persisted scoredCount
\* is the number of results persisted for the run.
C14_ScoredCountMatchesResults ==
    Run.status = "succeeded" => Run.scoredCount = Len(stored)

(***************************************************************************)
(* Properties of Claim under arbitrary callers (SpecKeys).                 *)
(***************************************************************************)
\* Callers r1 and r2 present the same (tenant, key, resourceType).
SameTriple(r1, r2) ==
    /\ req[r1].tenant = req[r2].tenant
    /\ req[r1].key = req[r2].key
    /\ req[r1].rtype = req[r2].rtype

\* C17: a Claim answers alreadyExisted = true only with the resourceId of a
\* claim stored for the same tenant, key and resource type; a claim of another
\* tenant or another resource type with the same key never causes it.
C17_ClaimsIndependent ==
    \A r \in Reqs :
        /\ (hclaim[r].kind = "ok" /\ hclaim[r].AlreadyExists) =>
              /\ hclaim[r].ResourceID \in Reqs \ {r}
              /\ SameTriple(r, hclaim[r].ResourceID)
              /\ Row(req[r].tenant, req[r].key, req[r].rtype, hclaim[r].ResourceID) \in idem
        /\ (/\ hclaim[r].kind \in {"ok", "empty"}
            /\ \A r2 \in Reqs \ {r} : hpc[r2] = "idle" \/ ~SameTriple(r, r2)) =>
              /\ hclaim[r] = [kind |-> "ok", AlreadyExists |-> FALSE, ResourceID |-> r]
              /\ Row(req[r].tenant, req[r].key, req[r].rtype, r) \in idem

C17_Witness ==
    \E r1, r2 \in Reqs :
        /\ req[r1].key = "k1" /\ req[r2].key = "k1"
        /\ req[r1].tenant = req[r2].tenant /\ req[r1].rtype # req[r2].rtype
        /\ hclaim[r1] = [kind |-> "ok", AlreadyExists |-> FALSE, ResourceID |-> r1]
        /\ hclaim[r2] = [kind |-> "ok", AlreadyExists |-> FALSE, ResourceID |-> r2]
        /\ hpc[r1] = "done" /\ hpc[r2] = "done"

\* C18: Claim with an empty key returns an error without reading or writing
\* the claim store.
C18_EmptyKeyRejected ==
    [][\A r \in Reqs :
          (hpc[r] = "claim" /\ req[r].key = "" /\ hpc'[r] # "claim") =>
              /\ hclaim'[r] = ClaimInvalid
              /\ hpc'[r] = "claim_ret"
              /\ hsnap'[r] = hsnap[r]
              /\ idem' = idem]_vars

C18_Witness ==
    \E r \in Reqs :
        /\ req[r].key = "" /\ hpc[r] = "done"
        /\ hclaim[r] = ClaimInvalid /\ hsnap[r] = {}
        /\ idem # {}

(***************************************************************************)
(* Properties of HandleCreateRun with its pipeline goroutine (SpecRun).    *)
(***************************************************************************)
\* C15: the pipeline is launched only for a run record that was created,
\* never after a failed creation, and the 202 response is sent without
\* waiting for the pipeline: it can be sent whatever the pipeline has done.
C15_LaunchAfterCreate ==
    /\ launched \subseteq DOMAIN runs
    /\ pc # "idle" => prun \in launched
    /\ \A r \in Reqs :
          /\ (hpc[r] = "done" /\ hresp[r] # 202) => r \notin launched
          /\ hresp[r] = 202 => r \in launched
          /\ hpc[r] = "respond" => ENABLED Respond(r)

C15_Witness ==
    /\ hresp[FirstReq] = 202
    /\ FirstReq \in launched
    /\ runs[FirstReq].status = "queued"
    /\ pc = "idle"

\* The handler of request r has launched the goroutine and has yet to finish
\* serializing the run into its 202 response (run.go 152-158).
Responding(r) == hpc[r] = "respond"

\* The goroutine assigns a field of the run object it shares with the
\* handler: run.SchemaConfigSnapshotID (pipeline.go 153).
SharedRunWritten == memSnapshotID' # memSnapshotID

\* C39: the run object the handler serializes into its 202 response is not
\* written by the pipeline goroutine while the handler reads it: no step
\* taken while the response is being built assigns a field of that object.
C39_NoWriteWhileResponding ==
    [][Responding(FirstReq) => ~SharedRunWritten]_vars

(***************************************************************************)
(* Properties of HandleUpload (SpecUpload).                                *)
(***************************************************************************)
\* C19: for one tenant and one content hash at most one upload record is
\* stored, for any interleaving of the upload requests.
C19_OneUploadPerContent ==
    \A t \in Tenants, h \in Hashes :
        Cardinality({u \in uploads : u.tenant = t /\ u.hash = h}) <= 1

C19_Witness ==
    \E r1, r2 \in Reqs :
        /\ r1 # r2
        /\ req[r1].tenant = req[r2].tenant /\ req[r1].hash = req[r2].hash
        /\ ufound[r1] = NoUpload /\ ufound[r2] = NoUpload
        /\ UploadRow(r1, req[r1].tenant, req[r1].hash, req[r1].key) \in uploads
        /\ hpc[r2] = "done" /\ hresp[r2] = 500

(***************************************************************************)
(* Properties of schema.Resolve (SpecResolve).                             *)
(***************************************************************************)
\* C20: for every resolved field f the resolved weight is the tenant's
\* standalone weights entry for f if there is one, otherwise the weight of
\* the tenant's definition of f if the tenant defines f, otherwise the weight
\* of the global definition of f.
C20_WeightPrecedence ==
    callResult.kind = "ok" =>
        LET g == callArgs.global.fields
            t == callArgs.tenant
        IN /\ DOMAIN callResult.Weights = DOMAIN callResult.Fields
           /\ \A f \in FieldNames :
                 (f \in DOMAIN g \/ (t.present /\ f \in DOMAIN t.fields)) =>
                    /\ f \in DOMAIN callResult.Weights
                    /\ callResult.Weights[f] =
                          IF t.present /\ f \in DOMAIN t.weights THEN t.weights[f]
                          ELSE IF t.present /\ f \in DOMAIN t.fields
                          THEN t.fields[f].Weight
                          ELSE g[f].Weight

C20_Witness ==
    LET g == callArgs.global.fields
        t == callArgs.tenant
    IN /\ callResult.kind = "ok"
       /\ t.present
       /\ DOMAIN g = {"site_id", "unemployment_rate"}
       /\ DOMAIN t.fields = {"site_id", "unemployment_rate"}
       /\ DOMAIN t.weights = {"site_id"}
       /\ g["site_id"].Weight = 10 /\ t.fields["site_id"].Weight = 10
       /\ t.weights["site_id"] = 30 /\ callResult.Weights["site_id"] = 30
       /\ g["unemployment_rate"].Weight = 10
       /\ t.fields["unemployment_rate"].Weight = 30
       /\ callResult.Weights["unemployment_rate"] = 30

\* The tenant's standalone weights name a field that neither the global
\* config nor the tenant's own field section declares.
UnknownTenantWeight ==
    /\ callArgs.tenant.present
    /\ callArgs.tenant.valid
    /\ \E name \in DOMAIN callArgs.tenant.weights :
          /\ ~(callArgs.global.valid /\ name \in DOMAIN callArgs.global.fields)
          /\ name \notin DOMAIN callArgs.tenant.fields

\* Resolve returned (nil, err): an error and no schema.
ReturnedErrorOnly ==
    /\ callResult.kind = "error"
    /\ callResult.err # ""
    /\ callResult.Fields = <<>>
    /\ callResult.Weights = <<>>

\* C21: when the tenant override's weights section names a field that is in
\* neither the global fields nor the tenant-declared fields, Resolve returns
\* an error and no schema; the entry is never silently ignored.
C21_UnknownWeightRejected ==
    (callResult # NoCall /\ UnknownTenantWeight) => ReturnedErrorOnly

C21_Witness ==
    /\ UnknownTenantWeight
    /\ callArgs.global.valid
    /\ callArgs.global.siteIDColumn = "site_id"
    /\ DOMAIN callArgs.global.fields = {"site_id"}
    /\ DOMAIN callArgs.tenant.fields = {}
    /\ DOMAIN callArgs.tenant.weights = {"unemployment_rate"}
    /\ callResult.kind = "error"
    /\ callResult.err = "cannot override weight for non-existent field"

\* The parsed global config declares no identifier column or no field.
GlobalIncomplete ==
    /\ callArgs.global.valid
    /\ \/ callArgs.global.siteIDColumn = ""
       \/ DOMAIN callArgs.global.fields = {}

\* C22: when the global config declares no identifier column, or declares
\* zero fields, Resolve returns an error and no schema, whatever the tenant
\* override is (absent, unparsable, or one that supplies a column and fields).
C22_IncompleteGlobalRejected ==
    (callResult # NoCall /\ GlobalIncomplete) => ReturnedErrorOnly

C22_Witness ==
    /\ GlobalIncomplete
    /\ callArgs.global.siteIDColumn = ""
    /\ DOMAIN callArgs.global.fields = {}
    /\ callArgs.tenant.present /\ callArgs.tenant.valid
    /\ callArgs.tenant.siteIDColumn = "alt_id"
    /\ DOMAIN callArgs.tenant.fields = {"site_id", "unemployment_rate"}
    /\ DOMAIN callArgs.tenant.weights = {}
    /\ callResult.kind = "error"
    /\ callResult.err = "global schema config must specify site_id_column"

\* C23: every schema Resolve returns has every key of Weights among the keys
\* of Fields, and its SiteIDColumn among the keys of Fields.
C23_SchemaWellFormed ==
    callResult.kind = "ok" =>
        /\ DOMAIN callResult.Weights \subseteq DOMAIN callResult.Fields
        /\ callResult.SiteIDColumn \in DOMAIN callResult.Fields

(***************************************************************************)
(* Properties of DefaultScoreFunc (SpecScore).                             *)
(***************************************************************************)
\* DefaultScoreFunc was called with a schema and a record that has values.
ScoredValidInput ==
    /\ callResult # NoScore
    /\ callArgs.schema.kind = "ok"
    /\ DOMAIN callArgs.siteData # {}

\* The record holds a number, or a string that reads as one, for the field.
HasNumericValue(siteData, fieldName) ==
    /\ fieldName \in DOMAIN siteData
    /\ \/ siteData[fieldName].kind = "number"
       \/ siteData[fieldName].kind = "string" /\ siteData[fieldName].parses

\* C24: for every resolved schema and every record with values the score
\* function returns without error a finalScore between 0 and 100, also when
\* values lie beyond the declared bounds, weights are positive, zero or
\* negative, and min and max come in either order.
C24_ScoreBounded ==
    ScoredValidInput =>
        /\ callResult.kind = "ok"
        /\ callResult.finalScore >= 0
        /\ callResult.finalScore <= 100000

\* A value beyond the declared max next to a negative weight: the quotient
\* of rawScore and the maximum possible score exceeds 100 before the clamp.
C24_Witness ==
    /\ ScoredValidInput
    /\ "unemployment_rate" \in DOMAIN callArgs.schema.Fields
    /\ "unemployment_rate" \in DOMAIN callArgs.siteData
    /\ callArgs.schema.Fields["unemployment_rate"].Max = <<100>>
    /\ callArgs.schema.Fields["unemployment_rate"].Min = <<0>>
    /\ callArgs.siteData["unemployment_rate"] = Number(150)
    /\ \E factor \in callResult.Factors : factor.Weight < 0
    /\ maxPossibleScore(callArgs.siteData, callArgs.schema) > 0
    /\ Quot(callResult.rawScore * 100,
            maxPossibleScore(callArgs.siteData, callArgs.schema)) > 100000
    /\ callResult.finalScore = 100000

\* The contribution of the field when the record holds the number v for it.
ContributionAt(fieldName, v) ==
    Factor([callArgs.siteData EXCEPT ![fieldName] = Number(v)],
           callArgs.schema, fieldName).Contribution

\* C25: with the schema and the other values fixed, a minimize field's
\* contribution at a smaller value is never below its contribution at a
\* larger value, and a maximize field's contribution at a larger value is
\* never below its contribution at a smaller value, for fields with both
\* bounds and for fields with a bound missing.
C25_DirectionMonotone ==
    ScoredValidInput =>
        \A factor \in callResult.Factors : \A v \in NumberVals :
            /\ (factor.Direction = "minimize" /\ v < factor.Value) =>
                  ContributionAt(factor.Name, v) >= factor.Contribution
            /\ (factor.Direction = "maximize" /\ v > factor.Value) =>
                  ContributionAt(factor.Name, v) >= factor.Contribution

\* The schema without one field.
WithoutField(schema, fieldName) ==
    [schema EXCEPT
        !.Fields = [f \in DOMAIN schema.Fields \ {fieldName} |-> schema.Fields[f]],
        !.Weights = [f \in DOMAIN schema.Weights \ {fieldName} |-> schema.Weights[f]]]

ExampleGlobal ==
    [valid |-> TRUE,
     fields |-> [f \in {"unemployment_rate"} |->
                    FieldDef("percentage", <<0>>, <<100>>, 10, "maximize")],
     siteIDColumn |-> "site_id"]

ExampleTenant ==
    [present |-> TRUE, valid |-> TRUE, fields |-> <<>>,
     weights |-> [f \in {"unemployment_rate"} |-> 20], siteIDColumn |-> NullStr]

ExampleRecord == [f \in {"unemployment_rate"} |-> Number(25)]

ExampleScored ==
    /\ callResult # NoScore
    /\ callArgs.schema = Resolve(ExampleGlobal, ExampleTenant)
    /\ callArgs.siteData = ExampleRecord

\* C27: for the global schema whose only field is unemployment_rate
\* (percentage, min 0, max 100, embedded weight 1.0, maximize), the tenant
\* override setting its weight to 2.0 and the record {unemployment_rate: 25},
\* Resolve and then the score function give contribution 0.5, maximum
\* possible score 2.0, finalScore 25 and one factor, unemployment_rate, with
\* weight 2.0.
C27_EndToEndExample ==
    ExampleScored =>
        /\ callResult.kind = "ok"
        /\ callResult.Factors =
              {[Name |-> "unemployment_rate", Value |-> 25, Weight |-> 20,
                Contribution |-> 5000, Direction |-> "maximize"]}
        /\ callResult.rawScore = 5000
        /\ maxPossibleScore(callArgs.siteData, callArgs.schema) = 20
        /\ callResult.finalScore = 25000

C27_Witness ==
    /\ ExampleScored
    /\ callArgs.schema.kind = "ok"
    /\ callArgs.schema.Fields["unemployment_rate"].Weight = 10
    /\ callArgs.schema.Weights["unemployment_rate"] = 20
    /\ callResult.finalScore = 25000

\* C28: the score function returns an error, with rawScore 0, finalScore 0
\* and no factors, exactly when the schema is nil or the record has no
\* values; for every other input it returns without error.
C28_ErrorIffInvalidInput ==
    callResult # NoScore =>
        /\ callResult.kind = "error" <=>
              (callArgs.schema.kind # "ok" \/ DOMAIN callArgs.siteData = {})
        /\ callResult.kind = "error" =>
              /\ callResult.err # ""
              /\ callResult.rawScore = 0
              /\ callResult.finalScore = 0
              /\ callResult.Factors = {}
        /\ callResult.kind # "error" => callResult.kind = "ok" /\ callResult.err = ""

\* A schema with weighted ordinal fields and a record without values.
C28_Witness ==
    /\ callResult.kind = "error"
    /\ callResult.err = "site data cannot be empty"
    /\ callArgs.schema.kind = "ok"
    /\ DOMAIN callArgs.schema.Fields = ScoreFieldNames
    /\ \A f \in ScoreFieldNames :
          /\ isNumericFieldType(callArgs.schema.Fields[f].Type)
          /\ callArgs.schema.Fields[f].Weight # 0
          /\ callArgs.schema.Weights[f] # 0
    /\ DOMAIN callArgs.siteData = {}

\* C29: a schema field contributes a factor, and then exactly one, with
\* contribution the normalized value times the effective weight, exactly
\* when its type is ordinal, its entry in the resolved Weights is not zero,
\* and the record holds a numeric value for it.
C29_EffectiveWeightDecides ==
    ScoredValidInput =>
        \A f \in DOMAIN callArgs.schema.Fields :
            LET fieldDef == callArgs.schema.Fields[f]
                named == {factor \in callResult.Factors : factor.Name = f}
            IN IF /\ isNumericFieldType(fieldDef.Type)
                  /\ f \in DOMAIN callArgs.schema.Weights
                  /\ callArgs.schema.Weights[f] # 0
                  /\ HasNumericValue(callArgs.siteData, f)
               THEN /\ Cardinality(named) = 1
                    /\ \A factor \in named :
                          factor.Contribution =
                              normalizeValue(callArgs.siteData[f].n, fieldDef.Min,
                                             fieldDef.Max, fieldDef.Direction)
                              * callArgs.schema.Weights[f]
               ELSE named = {}

(***************************************************************************)
(* Properties of the ranking (SpecRank).                                   *)
(***************************************************************************)
\* C30: of two results with equal finalScore, the one whose record came
\* earlier in the fetched set has the smaller rank.
C30_StableRanking ==
    callResult.called =>
        \A i, j \in 1..Len(callResult.recommendations) :
            LET a == callResult.recommendations[i]
                b == callResult.recommendations[j]
            IN (a.FinalScore = b.FinalScore /\ a.SiteID < b.SiteID) =>
                   a.Ranking < b.Ranking

(***************************************************************************)
(* Further properties of the pipeline and its retry wrapper (SpecPipe).    *)
(***************************************************************************)
\* The steps of Execute that follow step c.
AfterSnapshotSteps ==
    {"fetch_site_records", "succeeded_empty", "bulk_insert_recommendations",
     "update_status_succeeded"}

\* C31: in every attempt the schema snapshot is persisted before the site
\* records are fetched and before any record is scored or any result is
\* inserted: an attempt reaches the fetch only by the step that stores a new
\* snapshot of the run, results are stored only by an attempt that did so,
\* and a run with a stored result has a stored snapshot tagged with its id.
C31_SnapshotBeforeResults ==
    /\ [](pc \in AfterSnapshotSteps =>
             [id |-> memSnapshotID, runId |-> prun] \in snapshots)
    /\ [](Len(stored) > 0 => \E snapshot \in snapshots : snapshot.runId = prun)
    /\ [][(pc' = "fetch_site_records" /\ pc # "fetch_site_records") =>
             /\ pc = "create_snapshot"
             /\ Cardinality(snapshots') = Cardinality(snapshots) + 1
             /\ [id |-> memSnapshotID', runId |-> prun] \in snapshots' \ snapshots]_vars
    /\ [][(fetched' # fetched \/ stored' # stored) => pc \in AfterSnapshotSteps]_vars

\* The second attempt fails at the bulk insert after the first stored
\* results: the run has results and a snapshot of each attempt.
C31_Witness ==
    /\ Len(stored) > 0
    /\ started = 2
    /\ pc = "handle_error" /\ perr = "bulk_insert_recommendations"
    /\ Cardinality({snapshot \in snapshots : snapshot.runId = prun}) = 2

AttemptFails ==
    \/ pc = "handle_error" /\ pc' # pc
    \/ pc = "update_status_succeeded" /\ pc' \notin {"update_status_succeeded", "done"}

\* A failed attempt that was not the last one is followed by a backoff,
\* the last one by the final update, whatever the step that failed.
FailureThenBackoff ==
    AttemptFails =>
        /\ lastErr' \in HandledSteps \cup {"update_status_succeeded"}
        /\ pc' = IF started < maxRetries + 1 THEN "backoff" ELSE "exhausted"

\* The backoff ends in the start of another attempt.
BackoffThenAttempt ==
    pc = "backoff" =>
        \/ pc' = "backoff"
        \/ pc' = "loop" /\ attempt' = attempt + 1 /\ attempt' <= maxRetries

\* C33 (as claimed): every failed attempt, whether it failed with a
\* schema-resolution error or with a store error, is followed by a backoff
\* and another attempt as long as fewer than maxRetries+1 attempts have run.
C33_EveryFailureRetried ==
    [][FailureThenBackoff /\ BackoffThenAttempt]_vars

\* C33: every failed attempt, whatever its error, is followed by a backoff
\* as long as fewer than maxRetries+1 attempts have run; the backoff is
\* followed by another attempt, unless the context is cancelled while it
\* lasts: then ExecuteWithRetry returns the context's error.
C33_EveryFailureRetriedUnlessCancelled ==
    [][/\ FailureThenBackoff
       /\ BackoffThenAttempt \/ (cancelled /\ pc' = "done" /\ ret' = "ctx")]_vars

\* The first attempt failed in Resolve and a second attempt was started.
C33_Witness ==
    /\ schemaCfg = "unresolvable"
    /\ lastErr = "resolve"
    /\ Run.lastError = StepError("resolve")
    /\ started = 2
    /\ pc = "update_status_running"

\* C34: an attempt that fails with a schema-resolution error fails the run
\* at once: the wrapper goes to its final update to failed and starts no
\* further attempt.
C34_PermanentFailureNotRetried ==
    [][(pc = "handle_error" /\ perr = "resolve" /\ pc' # pc) => pc' = "exhausted"]_vars

\* C37: when ExecuteWithRetry returns nil for a run, the run's persisted
\* status is succeeded, whichever store operations have failed.
C37_NilMeansSucceeded == ret = "nil" => Run.status = "succeeded"

\* C40: a status update never clears lastError or scoredCount: once an
\* attempt has recorded a lastError, every later persisted state of the run
\* has a non-empty lastError, succeeded after a successful retry included.
C40_StatusUpdateKeepsError ==
    [][/\ Run.lastError # NoError => Run'.lastError # NoError
       /\ Run.scoredCount # NullInt => Run'.scoredCount # NullInt]_vars

C40_Witness ==
    /\ Run.status = "succeeded"
    /\ Run.lastError # NoError
    /\ attempt > 0
    /\ ret = "nil"

(***************************************************************************)
(* Termination of the retry wrapper (SpecPipeFair).                        *)
(***************************************************************************)
\* C35: ExecuteWithRetry starts at most maxRetries+1 attempts, sleeps a
\* backoff only after a failed attempt that is not the last one and before
\* what comes next (another attempt, or the return on cancellation), never
\* after a success, and always returns when every store call returns.
C35_BoundedRetriesTerminate ==
    /\ [](started <= maxRetries + 1)
    /\ [][(pc' = "backoff" /\ pc # "backoff") =>
             /\ AttemptFails
             /\ started < maxRetries + 1
             /\ ret = "none"]_vars
    /\ [][pc = "done" => pc' = "done" /\ started' = started]_vars
    /\ <>(pc = "done" /\ Returned)

\* All maxRetries+1 attempts failed and ExecuteWithRetry returned.
C35_Witness ==
    /\ pc = "done" /\ Returned
    /\ maxRetries = MaxRetries
    /\ attempt = maxRetries
    /\ started = maxRetries + 1

(***************************************************************************)
(* Properties of calculateBackoff (SpecBackoff).                           *)
(***************************************************************************)
\* min(x, 300000) for x = baseMs * 2^attempt, and for x + floor(x / 10).
LeastBackoff(baseMs, attemptIndex) ==
    IF baseMs = 0 THEN 0
    ELSE IF attemptIndex >= 19 THEN 300000
    ELSE IF baseMs * Pow2(attemptIndex) > 300000 THEN 300000 ELSE baseMs * Pow2(attemptIndex)

GreatestBackoff(baseMs, attemptIndex) ==
    IF baseMs = 0 THEN 0
    ELSE IF attemptIndex >= 19 THEN 300000
    ELSE LET x == baseMs * Pow2(attemptIndex)
         IN IF x + x \div 10 > 300000 THEN 300000 ELSE x + x \div 10

\* C36: for every attempt index k and base wait b >= 0 ms the backoff is a
\* duration of at least min(b*2^k, 300000) ms and at most
\* min(b*2^k + floor(b*2^k / 10), 300000) ms.
C36_BackoffWithinBounds ==
    callResult # NoBackoff =>
        /\ callResult.kind = "duration"
        /\ ~callResult.negative
        /\ callResult.ms >= LeastBackoff(callArgs.baseMs, callArgs.attempt)
        /\ callResult.ms <= GreatestBackoff(callArgs.baseMs, callArgs.attempt)

====
